---- MODULE Spec2Model ----
(***************************************************************************)
(* A model of the session/execution engine of open-ptc-agent:              *)
(*   - the persisted-session store (ptc_cli/agent/persistence.py),         *)
(*   - session resolution (ptc_cli/agent/lifecycle.py),                    *)
(*   - the streaming executor of one turn (ptc_cli/streaming/executor.py). *)
(*   - the agent's tools (src/agent/tools), the interactive loop and its   *)
(*     key bindings (ptc_cli/main.py, ptc_cli/input/prompt.py).            *)
(* Several specifications share the module.  SpecStore drives the four     *)
(* store functions; SpecSession runs main (create_agent_with_session, the  *)
(* interactive loop as a whole, the teardown); SpecTurn runs execute_task  *)
(* on a stream of events chosen by the model runtime; SpecTools calls the  *)
(* tools; SpecController reads a line at the prompt; SpecKeys presses      *)
(* Ctrl+C at it; SpecHitl resolves the interrupts of a plan review;        *)
(* SpecPlan builds the stream inputs of a task in and out of plan mode;    *)
(* SpecSwitch runs /model, /clear and tasks; SpecFingerprint hashes        *)
(* configurations; SpecRoundTrip writes and reads files of one sandbox.    *)
(***************************************************************************)
EXTENDS Integers, Sequences, FiniteSets, TLC

VARIABLES
    files,                \* agent name -> content of <state-root>/<agent>/session.json
    now,                  \* datetime.now(tz=UTC), in hours
    last,                 \* the store call made last (SpecStore)
    prev,                 \* the store call made before it (SpecStore)
    ops,                  \* number of store calls made so far (SpecStore)
    pc,                   \* position inside create_agent_with_session
    args,                 \* its arguments and the current config hash
    persisted_sandbox_id, \* lifecycle.py local of the same name
    reusing_sandbox,      \* lifecycle.py local of the same name
    session,              \* the session handle: its sandbox id and whether it is up
    backend,              \* sandbox ids the backend knows
    log,                  \* calls made during the resolution, in order
    loaded,               \* what load_persisted_session gave the resolution
    tpc,                  \* where the turn is: idle, stream, recover, done
    retry_count,          \* _retry_count of the execute_task call that is running
    caller,               \* who awaits it: controller, or the first call (try, handler)
    recover_at,           \* where recover_sandbox is awaited: try block or handler
    result,               \* how the turn ended
    state,                \* StreamingState of the running call
    tool_buffer,          \* ToolCallChunkBuffer of the running call
    empty_tracker,        \* EmptyResultTracker of the running call: the streak
    interrupt_occurred,   \* local of the same name
    events,               \* stream events the running call has consumed
    recoveries,           \* recover_sandbox calls of the turn
    reruns,               \* recursive execute_task calls of the turn
    late_fault,           \* a sandbox fault reached a call with _retry_count = 1
    printed_run,          \* chunk id -> invocation lines printed by the running call
    printed_turn,         \* chunk id -> invocation lines printed in the turn
    redelivered,          \* chunk ids completed again after their line was printed
    seen,                 \* what the turn showed and spawned: flush order, refresh task
    mpc,                  \* position inside main: startup, cli, teardown, exited
    main_session,         \* whether main's local session is set (not None)
    error_occurred,       \* main's local of the same name
    outcome,              \* how the try block of main was left
    teardown,             \* calls made on the session by the finally clause of main
    destroyed,            \* sandbox ids whose sandbox was deleted by cleanup
    tool,                 \* the tool invocation made last: input, backend calls, result
    ctl,                  \* simple_cli: the loop and what it did with the last line
    keys,                 \* the prompt: its buffer, the Ctrl+C fields of SessionState, the clock
    hitl,                 \* the interrupts a stream ended with and the resume built for them
    sw,                   \* the model in use: configuration, PTCAgent, agent reference, thread
    fgp,                  \* a configuration and the hash get_session_config_hash gave it
    disk                  \* the files of the sandbox: absolute path -> content

storeVars == <<files, now, last, prev, ops>>
sessionVars == <<pc, args, persisted_sandbox_id, reusing_sandbox, session, backend, log, loaded>>
frameVars == <<state, tool_buffer, empty_tracker, interrupt_occurred, events, printed_run,
               redelivered>>
turnVars == <<tpc, retry_count, caller, recover_at, result, frameVars, recoveries, reruns,
              late_fault, printed_turn, seen>>
mainVars == <<mpc, main_session, error_occurred, outcome, teardown, destroyed>>
restVars == <<tool, ctl, keys, hitl, sw, fgp, disk>>
beyond == <<turnVars, mainVars, restVars>>
vars == <<storeVars, sessionVars, beyond>>

----------------------------------------------------------------------------
(* Bounds of the model.                                                    *)

StartNow == 30            \* the hour at which a behaviour starts
MaxOps == 2               \* store calls per behaviour of SpecStore

(* Program constants.                                                      *)

SESSION_MAX_AGE_HOURS == 24

----------------------------------------------------------------------------
(* JSON values as json.loads / json.dumps exchange them.  A value is a     *)
(* record [t, s, n]: t is its type, s its text, n its number.  "iso" is a  *)
(* JSON string whose text datetime.fromisoformat accepts: s is its zone    *)
(* ("utc" or "naive"), n its instant in hours.  "missing" stands for a key *)
(* the object does not have.                                               *)

Agents == {"alpha", "beta"}
Keys == {"sandbox_id", "config_hash", "created_at", "last_used"}
SandboxIds == {"S1", "S2"}
Fingerprints == {"abcd1234", "ffff0000"}

Missing == [t |-> "missing", s |-> "", n |-> 0]
JNull == [t |-> "null", s |-> "", n |-> 0]
JObj == [t |-> "obj", s |-> "", n |-> 0]
JStr(x) == [t |-> "str", s |-> x, n |-> 0]
JNum(k) == [t |-> "num", s |-> "", n |-> k]
JList(len) == [t |-> "list", s |-> "", n |-> len]
JIso(zone, h) == [t |-> "iso", s |-> zone, n |-> h]

(* Python truthiness of dict.get(key): None (missing or null), "", 0 and   *)
(* [] are false.                                                           *)
Truthy(v) ==
    CASE v.t = "missing" -> FALSE
      [] v.t = "null" -> FALSE
      [] v.t = "str" -> v.s # ""
      [] v.t = "num" -> v.n # 0
      [] v.t = "list" -> v.n # 0
      [] OTHER -> TRUE

NoFields == [k \in Keys |-> Missing]

(* The content of a session file.  kind: "absent" (no file), "text" (not   *)
(* JSON), "json" (top is the parsed value; for an object f holds its       *)
(* fields).                                                                *)
NoFile == [kind |-> "absent", top |-> Missing, f |-> NoFields]
Garbage == [kind |-> "text", top |-> Missing, f |-> NoFields]
Scalar(v) == [kind |-> "json", top |-> v, f |-> NoFields]
Obj(f) == [kind |-> "json", top |-> JObj, f |-> f]

(* json.dumps(data, indent=2) of a dict of strings, then write_text.       *)
JsonDumps(f) == Obj(f)

(* datetime.now(tz=UTC).isoformat(): an aware timestamp.                   *)
IsoFormatNow(t) == JIso("utc", t)

Record(id, fp, created, used) ==
    [k \in Keys |->
        CASE k = "sandbox_id" -> id
          [] k = "config_hash" -> fp
          [] k = "created_at" -> created
          [] k = "last_used" -> used]

----------------------------------------------------------------------------
(* persistence.py                                                          *)

(* What load_persisted_session does to a file with content fc at hour t:   *)
(* res is "none" (returns None), "data" (returns the dict, in data) or     *)
(* "raise" (an exception leaves the function, named in exc); file is the   *)
(* content afterwards.                                                     *)
Loaded(res, exc, data, file) == [res |-> res, exc |-> exc, data |-> data, file |-> file]

(* LoadAge with the age test off by one: a record aged exactly the maximum *)
(* is discarded.                                                           *)
LoadAge_Expired_At_Max(fc, t) ==
    LET used == fc.f["last_used"] IN
    CASE used.t = "missing" -> Loaded("data", "", fc.f, fc)
      [] used.t = "iso" ->
            IF t - used.n >= SESSION_MAX_AGE_HOURS
            THEN Loaded("none", "", NoFields, NoFile)
            ELSE Loaded("data", "", fc.f, fc)
      [] used.t = "str" -> Loaded("none", "ValueError", NoFields, NoFile)
      [] OTHER -> Loaded("raise", "TypeError", NoFields, fc)

LoadAge(fc, t) ==
    LET used == fc.f["last_used"] IN
    CASE used.t = "missing" -> Loaded("data", "", fc.f, fc)
      [] used.t = "iso" ->
            IF t - used.n > SESSION_MAX_AGE_HOURS
            THEN Loaded("none", "", NoFields, NoFile)
            ELSE Loaded("data", "", fc.f, fc)
      [] used.t = "str" -> Loaded("none", "ValueError", NoFields, NoFile)
      [] OTHER -> Loaded("raise", "TypeError", NoFields, fc)

LoadRequired(fc, t) ==
    IF ~Truthy(fc.f["sandbox_id"]) \/ ~Truthy(fc.f["config_hash"])
    THEN Loaded("none", "", NoFields, fc)
    ELSE LoadAge(fc, t)

load_persisted_session(fc, t) ==
    CASE fc.kind = "absent" -> Loaded("none", "", NoFields, fc)
      [] fc.kind = "text" -> Loaded("none", "JSONDecodeError", NoFields, NoFile)
      [] fc.top.t # "obj" -> Loaded("raise", "AttributeError", NoFields, fc)
      [] OTHER -> LoadRequired(fc, t)

(* save_persisted_session storing the config hash under "sandbox_id" too.  *)
save_persisted_session_Wrong_Id(id, fp, t) ==
    JsonDumps(Record(JStr(fp), JStr(fp), IsoFormatNow(t), IsoFormatNow(t)))

save_persisted_session(id, fp, t) ==
    JsonDumps(Record(JStr(id), JStr(fp), IsoFormatNow(t), IsoFormatNow(t)))

(* update_session_last_used refreshing "created_at" instead of             *)
(* "last_used".                                                            *)
update_session_last_used_Wrong_Key(fc, t) ==
    CASE fc.kind = "absent" -> fc
      [] fc.kind = "text" -> fc
      [] fc.top.t # "obj" -> fc
      [] OTHER -> JsonDumps([fc.f EXCEPT !["created_at"] = IsoFormatNow(t)])

update_session_last_used(fc, t) ==
    CASE fc.kind = "absent" -> fc
      [] fc.kind = "text" -> fc
      [] fc.top.t # "obj" -> fc
      [] OTHER -> JsonDumps([fc.f EXCEPT !["last_used"] = IsoFormatNow(t)])

delete_persisted_session(fc) == NoFile

----------------------------------------------------------------------------
(* Contents a session file may have when a behaviour starts: written by an *)
(* earlier run, by an older version, or by hand.                           *)

IdValues == {Missing, JStr(""), JNum(7)} \cup {JStr(i) : i \in SandboxIds}
FpValues == {Missing, JStr(""), JNull} \cup {JStr(h) : h \in Fingerprints}
Recent == JIso("naive", StartNow - 1)
Old == JIso("utc", StartNow - SESSION_MAX_AGE_HOURS - 1)
UsedValues ==
    {Missing, JNull, JNum(5), JStr("yesterday"), Recent, Old,
     JIso("naive", StartNow - SESSION_MAX_AGE_HOURS - 1),
     JIso("utc", StartNow - SESSION_MAX_AGE_HOURS)}
CreatedValue == JIso("utc", StartNow - SESSION_MAX_AGE_HOURS - 1)

(* Every value of one field beside good values of the others, and every    *)
(* value of sandbox_id and of config_hash beside a recent and an expired   *)
(* last_used.                                                              *)
Variants ==
    {<<JStr("S1"), JStr("abcd1234"), u>> : u \in UsedValues}
        \cup {<<i, JStr("abcd1234"), u>> : i \in IdValues, u \in {Recent, Old}}
        \cup {<<JStr("S1"), h, u>> : h \in FpValues, u \in {Recent, Old}}
ObjectContents == {Obj(Record(v[1], v[2], CreatedValue, v[3])) : v \in Variants}
InitContents ==
    {NoFile, Garbage, Scalar(JList(0)), Scalar(JNull), Scalar(JStr("S1"))} \cup ObjectContents
OtherContents == {Obj(Record(JStr("S2"), JStr("ffff0000"), CreatedValue, Recent))}

(* A record with both required fields and a last_used that parses.         *)
WellFormed(fc) ==
    /\ fc.kind = "json" /\ fc.top.t = "obj"
    /\ Truthy(fc.f["sandbox_id"]) /\ Truthy(fc.f["config_hash"])
    /\ fc.f["last_used"].t = "iso"

Age(fc, t) == t - fc.f["last_used"].n

----------------------------------------------------------------------------
(* SpecStore: the four store functions called in any order, on any agent,  *)
(* with the arguments resolution passes (a sandbox id, a config hash).     *)

NoCall ==
    [op |-> "none", agent |-> "", id |-> "", fp |-> "", at |-> 0,
     res |-> "", exc |-> "", data |-> NoFields, before |-> NoFile]

Call(op, a, id, fp, r) ==
    [op |-> op, agent |-> a, id |-> id, fp |-> fp, at |-> now,
     res |-> r.res, exc |-> r.exc, data |-> r.data, before |-> files[a]]

Returned(file) == Loaded("", "", NoFields, file)

IdleSession ==
    /\ pc = "idle"
    /\ args = [agent |-> "alpha", sandbox_id |-> "", persist_session |-> TRUE, config_hash |-> ""]
    /\ persisted_sandbox_id = Missing
    /\ reusing_sandbox = FALSE
    /\ session = [up |-> FALSE, sandbox_id |-> ""]
    /\ backend = {}
    /\ log = <<>>
    /\ loaded = Loaded("", "", NoFields, NoFile)

ChunkIds == {"k1", "k2"}
NoId == "none"
Ids == ChunkIds \cup {NoId}

NewState == [spinner_active |-> TRUE, has_responded |-> FALSE, pending_text |-> ""]
NewBuffer == [partial |-> {}, displayed |-> {}]
NoLines == [k \in ChunkIds |-> 0]

IdleMain ==
    /\ mpc = "startup"
    /\ main_session = FALSE
    /\ error_occurred = FALSE
    /\ outcome = ""
    /\ teardown = <<>>
    /\ destroyed = {}

(* The result of a tool: the pieces of the returned string in order, the   *)
(* numbered lines of a file that was read, or an exception that left it.   *)
Returns(parts) == [parts |-> parts, lines |-> <<>>, raised |-> ""]

NoInvocation ==
    [name |-> "", path |-> "", validation |-> FALSE, timeout |-> [kind |-> "default", ms |-> 0],
     out |-> [kind |-> "", msg |-> "", text |-> <<>>], calls |-> <<>>,
     handed |-> [whole |-> 0, milli |-> 0], ret |-> Returns(<<>>)]

IdleTools == tool = NoInvocation

(* simple_cli at its prompt, nothing read yet.                             *)
AtPrompt ==
    [loop |-> "prompt", line |-> <<>>, route |-> "", handled_by |-> "", execute_task |-> <<>>,
     shell |-> <<>>]

IdleController == ctl = AtPrompt

None == -1

(* core/state.py 38-41 and a prompt with an empty buffer at time 0.        *)
NoPress == [kind |-> "", count_before |-> 0, in_window |-> FALSE]

NewPrompt ==
    [text |-> "", ctrl_c_count |-> 0, exit_hint_until |-> None, exit_hint_handle |-> None,
     mono |-> 0, exited |-> FALSE, opened |-> None, press |-> NoPress]

IdleKeys == keys = NewPrompt

(* A Python value that is None (Absent) or a string.                        *)
Absent == <<>>

Str(s) == <<s>>

NoCommand == [resume |-> <<>>, update |-> <<>>]

(* execute_task before its interrupt loop is entered.  pending_interrupts  *)
(* and hitl_response are dicts: sequences of entries in insertion order.   *)
NoHitl ==
    [phase |-> "idle", auto_approve |-> FALSE, interrupt_occurred |-> FALSE,
     pending_interrupts |-> <<>>, hitl_response |-> <<>>, at |-> 1,
     any_rejected |-> FALSE, rejection_feedback |-> Absent, stream_input |-> NoCommand,
     asked |-> <<>>, warned |-> FALSE, plan_mode |-> FALSE, opened_with |-> "",
     messages |-> <<>>, retried |-> FALSE, delivered |-> {}]

IdleHitl == hitl = NoHitl

(* simple_cli entered (main.py 319-329): the configured model, the model   *)
(* of the PTCAgent's client and of the agent behind agent_ref are the one  *)
(* the configuration names; the checkpointer is empty and the thread new.  *)
NoModelCommand ==
    [returned |-> "", held |-> FALSE, query |-> "", selected |-> "", fails |-> "",
     before |-> <<"", "", "">>, replaced |-> FALSE, refused |-> FALSE]

FirstModel == "m1"

NewSwitchState ==
    [name |-> FirstModel, ptc_llm |-> FirstModel,
     agent |-> [serial |-> 0, model |-> FirstModel], saved |-> {}, thread_id |-> 0,
     agents |-> 0, fresh |-> TRUE, cmd |-> NoModelCommand, ran_on |-> <<>>]

IdleSwitch == sw = NewSwitchState

NoFingerprint == [config |-> <<>>, hash |-> <<>>, again |-> <<>>]

IdleFingerprint == fgp = NoFingerprint

(* A sandbox with no file under the paths the tools are given.             *)
NoSuchFile == [exists |-> FALSE, content |-> <<>>]

SandboxPaths == {"/home/daytona/a.txt", "/etc/passwd"}

EmptyDisk == [abs \in SandboxPaths |-> NoSuchFile]

IdleDisk == disk = EmptyDisk

IdleRest ==
    /\ IdleTools
    /\ IdleController
    /\ IdleKeys
    /\ IdleHitl
    /\ IdleSwitch
    /\ IdleFingerprint
    /\ IdleDisk

(* A turn that has printed no line and created no task.  unflushed: a tool *)
(* invocation line, a red error line or the end of the stream was reached  *)
(* while the buffer held text that was not printed.                        *)
NothingSeen ==
    [unflushed |-> FALSE, completer |-> FALSE, refresh_tasks |-> 0, refresh |-> ""]

IdleTurn ==
    /\ tpc = "idle"
    /\ retry_count = 0
    /\ caller = "controller"
    /\ recover_at = ""
    /\ result = ""
    /\ state = [spinner_active |-> FALSE, has_responded |-> FALSE, pending_text |-> ""]
    /\ tool_buffer = NewBuffer
    /\ empty_tracker = 0
    /\ interrupt_occurred = FALSE
    /\ events = 0
    /\ recoveries = 0
    /\ reruns = 0
    /\ late_fault = FALSE
    /\ printed_run = NoLines
    /\ printed_turn = NoLines
    /\ redelivered = {}
    /\ seen = NothingSeen

StoreInit ==
    /\ \E ca \in InitContents, cb \in OtherContents :
            files = [a \in Agents |-> IF a = "alpha" THEN ca ELSE cb]
    /\ now = StartNow
    /\ last = NoCall
    /\ prev = NoCall
    /\ ops = 0
    /\ IdleSession
    /\ IdleTurn
    /\ IdleMain
    /\ IdleRest

StoreStep(a, call, file) ==
    /\ ops < MaxOps
    /\ ops' = ops + 1
    /\ files' = [files EXCEPT ![a] = file]
    /\ prev' = last
    /\ last' = call
    /\ UNCHANGED <<now, sessionVars, beyond>>

StoreLoad(a) ==
    LET r == load_persisted_session(files[a], now) IN
    StoreStep(a, Call("load", a, "", "", r), r.file)

StoreSave(a, id, fp) ==
    LET r == Returned(save_persisted_session(id, fp, now)) IN
    StoreStep(a, Call("save", a, id, fp, r), r.file)

StoreTouch(a) ==
    LET r == Returned(update_session_last_used(files[a], now)) IN
    StoreStep(a, Call("touch", a, "", "", r), r.file)

StoreDelete(a) ==
    LET r == Returned(delete_persisted_session(files[a])) IN
    StoreStep(a, Call("delete", a, "", "", r), r.file)

(* Time passes between two calls: a day, or a day and an hour.             *)
Tick(d) ==
    /\ now < StartNow + SESSION_MAX_AGE_HOURS
    /\ now' = now + d
    /\ UNCHANGED <<files, last, prev, ops, sessionVars, beyond>>

StoreNext ==
    \/ \E a \in Agents : StoreLoad(a)
    \/ \E a \in Agents, id \in SandboxIds, fp \in Fingerprints : StoreSave(a, id, fp)
    \/ \E a \in Agents : StoreTouch(a)
    \/ \E a \in Agents : StoreDelete(a)
    \/ \E d \in {SESSION_MAX_AGE_HOURS, SESSION_MAX_AGE_HOURS + 1} : Tick(d)

SpecStore == StoreInit /\ [][StoreNext]_vars

----------------------------------------------------------------------------
(* lifecycle.py: create_agent_with_session, one action for each stretch of *)
(* code between two awaits on the session.                                 *)

NewIds == {"N1", "N2"}

(* The id SessionManager's initialize() gives a sandbox it creates.        *)
FreshId(known) == CHOOSE n \in NewIds : n \notin known

Entry(call, arg, ok) == [call |-> call, arg |-> arg, ok |-> ok]

Calls(name) == {i \in 1..Len(log) : log[i].call = name}

SessionInit ==
    /\ \E ca \in InitContents, cb \in OtherContents :
            files = [a \in Agents |-> IF a = "alpha" THEN ca ELSE cb]
    /\ now = StartNow
    /\ last = NoCall
    /\ prev = NoCall
    /\ ops = 0
    /\ pc = "start"
    /\ \E sid \in {"", "S1"}, persist \in BOOLEAN, fp \in Fingerprints :
            args = [agent |-> "alpha", sandbox_id |-> sid,
                    persist_session |-> persist, config_hash |-> fp]
    /\ persisted_sandbox_id = Missing
    /\ reusing_sandbox = FALSE
    /\ session = [up |-> FALSE, sandbox_id |-> ""]
    /\ backend \in {{}, {"S1"}, SandboxIds}
    /\ log = <<>>
    /\ loaded = Loaded("", "", NoFields, NoFile)
    /\ IdleTurn
    /\ IdleMain
    /\ IdleRest

(* Lines 58-67 on what load returned: the sandbox id to reattach to and    *)
(* whether the record is deleted.                                          *)
ReuseAlways(r, config_hash) ==
    IF r.res = "data"
    THEN [id |-> r.data["sandbox_id"], delete |-> FALSE]
    ELSE [id |-> Missing, delete |-> FALSE]

PersistedChoice(r, config_hash) ==
    IF r.res = "data"
    THEN IF r.data["config_hash"] = JStr(config_hash)
         THEN [id |-> r.data["sandbox_id"], delete |-> FALSE]
         ELSE [id |-> Missing, delete |-> TRUE]
    ELSE [id |-> Missing, delete |-> FALSE]

(* Lines 51-72, with an explicit sandbox id.                               *)
ResolveExplicit ==
    /\ pc = "start"
    /\ args.sandbox_id # ""
    /\ persisted_sandbox_id' = JStr(args.sandbox_id)
    /\ pc' = "reattach"
    /\ UNCHANGED <<beyond, storeVars, args, reusing_sandbox, session, backend, log, loaded>>

(* Lines 51-72, persistence disabled and no explicit id.                   *)
ResolveNothing ==
    /\ pc = "start"
    /\ args.sandbox_id = ""
    /\ ~args.persist_session
    /\ pc' = "create"
    /\ UNCHANGED <<beyond, storeVars, args, persisted_sandbox_id, reusing_sandbox, session,
                   backend, log, loaded>>

(* Lines 51-72, persistence enabled and no explicit id: the record is      *)
(* loaded; an exception of load leaves create_agent_with_session.          *)
ResolvePersisted ==
    /\ pc = "start"
    /\ args.sandbox_id = ""
    /\ args.persist_session
    /\ LET r == load_persisted_session(files[args.agent], now)
           c == PersistedChoice(r, args.config_hash)
       IN /\ loaded' = r
          /\ persisted_sandbox_id' = c.id
          /\ files' = [files EXCEPT ![args.agent] =
                            IF c.delete THEN delete_persisted_session(r.file) ELSE r.file]
          /\ log' = log \o <<Entry("load", Missing, r.res # "raise")>>
                        \o (IF c.delete THEN <<Entry("delete", Missing, TRUE)>> ELSE <<>>)
          /\ pc' = IF r.res = "raise" THEN "raised"
                   ELSE IF Truthy(c.id) THEN "reattach" ELSE "create"
    /\ UNCHANGED <<beyond, now, last, prev, ops, args, reusing_sandbox, session, backend>>

(* SaveNew saving whether or not persist_session is set.                   *)
SaveNew_Always(fs, sandbox_id) ==
    IF sandbox_id # ""
    THEN [fs EXCEPT ![args.agent] = save_persisted_session(sandbox_id, args.config_hash, now)]
    ELSE fs

(* Lines 96-99: the new sandbox's id is saved with the current hash.       *)
SaveNew(fs, sandbox_id) ==
    IF args.persist_session /\ sandbox_id # ""
    THEN [fs EXCEPT ![args.agent] = save_persisted_session(sandbox_id, args.config_hash, now)]
    ELSE fs

SaveEntry(sandbox_id) ==
    IF args.persist_session /\ sandbox_id # ""
    THEN <<Entry("save", JStr(sandbox_id), TRUE)>>
    ELSE <<>>

(* Lines 74-81 and 96-99: initialize(sandbox_id=persisted_sandbox_id)      *)
(* succeeds, which it can for an id the backend knows.                     *)
ReattachOk ==
    /\ pc = "reattach"
    /\ persisted_sandbox_id.t = "str"
    /\ persisted_sandbox_id.s \in backend
    /\ session' = [up |-> TRUE, sandbox_id |-> persisted_sandbox_id.s]
    /\ reusing_sandbox' = TRUE
    /\ files' = IF args.persist_session
                THEN [files EXCEPT ![args.agent] = update_session_last_used(@, now)]
                ELSE files
    /\ log' = log \o <<Entry("initialize", persisted_sandbox_id, TRUE)>>
                  \o (IF args.persist_session THEN <<Entry("touch", Missing, TRUE)>> ELSE <<>>)
    /\ pc' = "agent"
    /\ UNCHANGED <<beyond, now, last, prev, ops, args, persisted_sandbox_id, backend, loaded>>

(* ReattachFail letting the exception of initialize leave the function.    *)
ReattachFail_Propagates ==
    /\ pc = "reattach"
    /\ log' = log \o <<Entry("initialize", persisted_sandbox_id, FALSE)>>
    /\ pc' = "raised"
    /\ UNCHANGED <<beyond, storeVars, args, persisted_sandbox_id, reusing_sandbox, session,
                   backend, loaded>>

(* Lines 82-88: initialize(sandbox_id=persisted_sandbox_id) raises (the id *)
(* is unknown or the backend refuses); the record is deleted and a new     *)
(* session is made, whose initialize() is awaited next.                    *)
ReattachFail ==
    /\ pc = "reattach"
    /\ files' = [files EXCEPT ![args.agent] = delete_persisted_session(@)]
    /\ log' = log \o <<Entry("initialize", persisted_sandbox_id, FALSE),
                       Entry("delete", Missing, TRUE)>>
    /\ pc' = "create"
    /\ UNCHANGED <<beyond, now, last, prev, ops, args, persisted_sandbox_id, reusing_sandbox,
                   session, backend, loaded>>

(* Lines 89-90 or 94, and 96-99: initialize() creates a sandbox.           *)
CreateOk ==
    /\ pc = "create"
    /\ LET id == FreshId(backend) IN
        /\ session' = [up |-> TRUE, sandbox_id |-> id]
        /\ backend' = backend \cup {id}
        /\ files' = SaveNew(files, id)
        /\ log' = log \o <<Entry("initialize", Missing, TRUE)>> \o SaveEntry(id)
    /\ reusing_sandbox' = FALSE
    /\ pc' = "agent"
    /\ UNCHANGED <<beyond, now, last, prev, ops, args, persisted_sandbox_id, loaded>>

(* Lines 89 or 94: initialize() raises, and so does the function.          *)
CreateFail ==
    /\ pc = "create"
    /\ log' = log \o <<Entry("initialize", Missing, FALSE)>>
    /\ pc' = "raised"
    /\ UNCHANGED <<beyond, storeVars, args, persisted_sandbox_id, reusing_sandbox, session,
                   backend, loaded>>

(* Lines 101-129: the agent is built and the tuple returned.               *)
AgentCreated ==
    /\ pc = "agent"
    /\ pc' = "done"
    /\ UNCHANGED <<beyond, storeVars, args, persisted_sandbox_id, reusing_sandbox, session,
                   backend, log, loaded>>

(* Lines 101-129: PTCAgent(config) or create_agent raises.                 *)
AgentFails ==
    /\ pc = "agent"
    /\ log' = log \o <<Entry("create_agent", Missing, FALSE)>>
    /\ pc' = "raised"
    /\ UNCHANGED <<beyond, storeVars, args, persisted_sandbox_id, reusing_sandbox, session,
                   backend, loaded>>

----------------------------------------------------------------------------
(* main.py: main, around create_agent_with_session.  The interactive loop  *)
(* (simple_cli) is one step here: it returns or raises.                    *)

resolution == <<storeVars, sessionVars, turnVars, restVars>>

(* Lines 452-458: create_agent_with_session returned; main's session is    *)
(* bound only now.  Lines 466-474: simple_cli is entered.                  *)
MainSessionBound ==
    /\ mpc = "startup"
    /\ pc = "done"
    /\ main_session' = TRUE
    /\ mpc' = "cli"
    /\ UNCHANGED <<resolution, error_occurred, outcome, teardown, destroyed>>

(* Lines 482-488: create_agent_with_session raised; session is still None. *)
MainStartupRaises ==
    /\ mpc = "startup"
    /\ pc = "raised"
    /\ error_occurred' = TRUE
    /\ outcome' = "Exception"
    /\ mpc' = "teardown"
    /\ UNCHANGED <<resolution, main_session, teardown, destroyed>>

Outcomes == {"returned", "KeyboardInterrupt", "Exception"}

(* Lines 466-488: simple_cli returns, or raises into one of the except     *)
(* clauses, which set error_occurred and call sys.exit.                    *)
CliEnds(how) ==
    /\ mpc = "cli"
    /\ outcome' = how
    /\ error_occurred' = (how # "returned")
    /\ mpc' = "teardown"
    /\ UNCHANGED <<resolution, main_session, teardown, destroyed>>

(* Lines 492-493: which of stop and cleanup the finally clause calls.      *)
TeardownCall_IgnoresError(persist_session, error) ==
    IF persist_session THEN "stop" ELSE "cleanup"

TeardownCall(persist_session, error) ==
    IF persist_session /\ ~error THEN "stop" ELSE "cleanup"

(* Lines 489-523: the finally clause.  The call may raise (ok is false),   *)
(* which is caught and reported as a warning; cleanup that succeeds        *)
(* deletes the sandbox.                                                    *)
Teardown(ok) ==
    /\ mpc = "teardown"
    /\ mpc' = "exited"
    /\ IF main_session
       THEN LET call == TeardownCall(args.persist_session, error_occurred)
            IN /\ teardown' = Append(teardown, Entry(call, JStr(session.sandbox_id), ok))
               /\ destroyed' = IF call = "cleanup" /\ ok
                               THEN destroyed \cup {session.sandbox_id}
                               ELSE destroyed
       ELSE UNCHANGED <<teardown, destroyed>>
    /\ UNCHANGED <<resolution, main_session, error_occurred, outcome>>

SessionNext ==
    \/ ResolveExplicit
    \/ ResolveNothing
    \/ ResolvePersisted
    \/ ReattachOk
    \/ ReattachFail
    \/ CreateOk
    \/ CreateFail
    \/ AgentCreated
    \/ AgentFails
    \/ MainSessionBound
    \/ MainStartupRaises
    \/ \E how \in Outcomes : CliEnds(how)
    \/ \E ok \in BOOLEAN : Teardown(ok)

SpecSession == SessionInit /\ [][SessionNext]_vars

----------------------------------------------------------------------------
(* streaming/state.py: StreamingState.  pending_text is "" (empty), "ws"   *)
(* (white space only) or "text".                                           *)

stop_spinner(st) == [st EXCEPT !.spinner_active = FALSE]

start_spinner(st) == [st EXCEPT !.spinner_active = TRUE]

(* flush_text printing nothing.                                             *)
flush_text_Never(st) == st

(* state.py 60-73, called with final=True: text other than white space is  *)
(* printed after the spinner is stopped, and the buffer emptied.           *)
flush_text(st) ==
    IF st.pending_text # "text"
    THEN st
    ELSE [spinner_active |-> FALSE, has_responded |-> TRUE, pending_text |-> ""]

append_text(st, text) ==
    [st EXCEPT !.pending_text = IF text = "text" \/ @ = "text" THEN "text"
                                ELSE IF text = "ws" \/ @ = "ws" THEN "ws" ELSE ""]

----------------------------------------------------------------------------
(* streaming/executor.py: execute_task.  One action for each stream event  *)
(* and for each await that ends a stretch of the function.                 *)

MaxEvents == 3            \* stream events one execute_task call consumes
EmptyThreshold == 2       \* empty results in a row that trip the tracker

ToolNames == {"Bash", "read_file", "task"}
Statuses == {"success", "error"}
Contents == {"empty", "text", "error", "fault_error", "fault_text"}
Exceptions == {"sandbox", "other"}

(* recovery.is_sandbox_error: the text holds one of the fault substrings.  *)
is_sandbox_error(text) == text \in {"fault_error", "fault_text", "sandbox"}

(* stripped.lower().startswith("error")                                    *)
StartsWithError(content) == content \in {"error", "fault_error"}

(* health.EmptyResultTracker.record: the streak after the result, and      *)
(* whether it reached the threshold.                                       *)
Sensitive(name) == name \in {"Bash", "read_file"}

TrackerStreak(streak, name, content) ==
    IF ~Sensitive(name) THEN streak
    ELSE IF content = "empty" THEN streak + 1 ELSE 0

TrackerTripped(streak, name, content) ==
    Sensitive(name) /\ content = "empty" /\ streak + 1 >= EmptyThreshold

(* tool_buffer.add_chunk: the fragment either completes the call of its    *)
(* chunk id or is kept in the table keyed by chunk id.                     *)
add_chunk(buf, k, complete) ==
    [buf EXCEPT !.partial = IF k = NoId THEN @
                            ELSE IF complete THEN @ \ {k} ELSE @ \cup {k}]

was_displayed(buf, k) == k \in buf.displayed

mark_displayed(buf, k) == [buf EXCEPT !.displayed = @ \cup {k}]

storeFixed == <<now, last, prev, ops>>
sessionFixed == <<pc, args, persisted_sandbox_id, reusing_sandbox, log, loaded>>
outside == <<files, session, backend, storeFixed, sessionFixed, mainVars, restVars>>

TurnInit ==
    /\ files = [a \in Agents |->
                    Obj(Record(JStr(IF a = "alpha" THEN "S1" ELSE "S2"), JStr("abcd1234"),
                               CreatedValue, Recent))]
    /\ now = StartNow
    /\ last = NoCall
    /\ prev = NoCall
    /\ ops = 0
    /\ pc = "done"
    /\ args = [agent |-> "alpha", sandbox_id |-> "", persist_session |-> TRUE,
               config_hash |-> "abcd1234"]
    /\ persisted_sandbox_id = JStr("S1")
    /\ reusing_sandbox = TRUE
    /\ session = [up |-> TRUE, sandbox_id |-> "S1"]
    /\ backend = {"S1"}
    /\ log = <<>>
    /\ loaded = Loaded("", "", NoFields, NoFile)
    /\ IdleTurn
    /\ IdleMain
    /\ IdleRest

(* A call of execute_task up to the opening of the stream (lines 171-265): *)
(* a new StreamingState (its spinner started), tool buffer and tracker.    *)
NewFrame ==
    /\ state' = NewState
    /\ tool_buffer' = NewBuffer
    /\ empty_tracker' = 0
    /\ interrupt_occurred' = FALSE
    /\ events' = 0
    /\ printed_run' = NoLines
    /\ redelivered' = {}

(* main.py 379: the controller hands a task to execute_task.               *)
StartTurn ==
    /\ tpc \in {"idle", "done"}
    /\ tpc' = "stream"
    /\ retry_count' = 0
    /\ caller' = "controller"
    /\ recover_at' = ""
    /\ result' = ""
    /\ NewFrame
    /\ recoveries' = 0
    /\ reruns' = 0
    /\ late_fault' = FALSE
    /\ printed_turn' = NoLines
    /\ seen' = NothingSeen
    /\ UNCHANGED outside

Streaming == tpc = "stream" /\ events < MaxEvents

(* The event changes the StreamingState and nothing else.                  *)
Consume(st) ==
    /\ state' = st
    /\ events' = events + 1
    /\ UNCHANGED <<tpc, retry_count, caller, recover_at, result, tool_buffer, empty_tracker,
                   interrupt_occurred, recoveries, reruns, late_fault, printed_run,
                   printed_turn, redelivered, seen,
                   outside>>

(* Lines 439-446 and 483-484: a message with a text block; final tells     *)
(* whether its chunk_position is "last".                                   *)
StreamText(text, final) ==
    /\ Streaming
    /\ Consume(IF final THEN flush_text(append_text(state, text))
               ELSE append_text(state, text))

(* Lines 323-336: a human message with content.                            *)
StreamHuman ==
    /\ Streaming
    /\ Consume([stop_spinner(flush_text(state)) EXCEPT !.has_responded = TRUE])

(* Lines 299-310: an update with a changed todo list.                      *)
StreamTodos ==
    /\ Streaming
    /\ Consume(stop_spinner(state))

(* Lines 282-297: an update with a valid HITL interrupt.                   *)
StreamInterrupt ==
    /\ Streaming
    /\ interrupt_occurred' = TRUE
    /\ events' = events + 1
    /\ UNCHANGED <<tpc, retry_count, caller, recover_at, result, state, tool_buffer,
                   empty_tracker, recoveries, reruns, late_fault, printed_run, printed_turn,
                   redelivered, seen,
                   outside>>

(* Lines 448-452: a tool-call fragment that does not complete its call.    *)
StreamToolFragment(k) ==
    /\ Streaming
    /\ tool_buffer' = add_chunk(tool_buffer, k, FALSE)
    /\ events' = events + 1
    /\ UNCHANGED <<tpc, retry_count, caller, recover_at, result, state, empty_tracker,
                   interrupt_occurred, recoveries, reruns, late_fault, printed_run,
                   printed_turn, redelivered, seen,
                   outside>>

(* The invocation lines printed for each chunk id, after one more for k.   *)
Line(lines, k) == IF k = NoId THEN lines ELSE [lines EXCEPT ![k] = @ + 1]

(* Whether lines 459-462 skip the call: its id is set and its line was     *)
(* printed already.                                                        *)
SkipNever(buf, k) == FALSE

SkipDisplayed(buf, k) == k # NoId /\ was_displayed(buf, k)

(* A tool invocation line, a red error line or the end of the stream is    *)
(* reached while the StreamingState is st.                                 *)
Reached(obs, st) == [obs EXCEPT !.unflushed = @ \/ st.pending_text = "text"]

(* Lines 448-481: a fragment that completes the call of chunk id k.  The   *)
(* pending text is flushed; unless the id is in the displayed set, it is   *)
(* marked, the invocation line is printed and the spinner restarted.       *)
StreamToolCall(k) ==
    /\ Streaming
    /\ events' = events + 1
    /\ LET buf == add_chunk(tool_buffer, k, TRUE)
           st == flush_text(state)
       IN IF SkipDisplayed(buf, k)
          THEN /\ tool_buffer' = buf
               /\ state' = st
               /\ redelivered' = redelivered \cup {k}
               /\ UNCHANGED <<printed_run, printed_turn, seen>>
          ELSE /\ tool_buffer' = IF k # NoId THEN mark_displayed(buf, k) ELSE buf
               /\ state' = start_spinner(stop_spinner(st))
               /\ printed_run' = Line(printed_run, k)
               /\ printed_turn' = Line(printed_turn, k)
               /\ seen' = Reached(seen, st)
               /\ UNCHANGED redelivered
    /\ UNCHANGED <<tpc, retry_count, caller, recover_at, result, empty_tracker,
                   interrupt_occurred, recoveries, reruns, late_fault, outside>>

(* The StreamingState after lines 348-388 showed a tool result.            *)
Shown(st, name, status, content) ==
    IF name = "Bash" /\ status # "success"
    THEN IF content # "empty" THEN stop_spinner(flush_text(st)) ELSE flush_text(st)
    ELSE IF content # "empty" /\ StartsWithError(content)
         THEN stop_spinner(flush_text(st))
         ELSE st

(* Lines 354 and 387: whether the result is printed as a red line by a     *)
(* call that may or may not recover.                                       *)
RedLine(name, status, content, recovers) ==
    IF name = "Bash" /\ status # "success"
    THEN content # "empty"
    ELSE content # "empty" /\ StartsWithError(content)
            /\ ~(is_sandbox_error(content) /\ recovers)

(* Line 360: an error result that is a sandbox fault.                      *)
FaultResult(name, status, content) ==
    /\ ~(name = "Bash" /\ status # "success")
    /\ StartsWithError(content)
    /\ is_sandbox_error(content)

(* Lines 360, 391-396 and 562: recovery is tried by a call that has not    *)
(* retried and has a session.                                              *)
MayRecover == retry_count = 0 /\ session.up

(* recover_sandbox is called (lines 367, 404, 568).                        *)
CallRecover(at) ==
    /\ tpc' = "recover"
    /\ recover_at' = at
    /\ recoveries' = recoveries + 1

(* Lines 338-418: a tool result.  healthy is what check_sandbox_health     *)
(* would answer.                                                           *)
StreamToolResult(name, status, content, healthy) ==
    /\ Streaming
    /\ events' = events + 1
    /\ LET fault == FaultResult(name, status, content)
           tripped == TrackerTripped(empty_tracker, name, content)
           st == Shown(state, name, status, content)
       IN /\ empty_tracker' = IF fault /\ MayRecover THEN empty_tracker
                              ELSE TrackerStreak(empty_tracker, name, content)
          /\ late_fault' = (late_fault \/ (fault /\ retry_count = 1))
          /\ seen' = IF RedLine(name, status, content, MayRecover) THEN Reached(seen, st)
                     ELSE seen
          /\ IF fault /\ MayRecover
             THEN /\ state' = st
                  /\ CallRecover("try")
             ELSE IF tripped /\ MayRecover /\ ~healthy
                  THEN /\ state' = stop_spinner(flush_text(st))
                       /\ CallRecover("try")
                  ELSE /\ state' = st
                       /\ UNCHANGED <<tpc, recover_at, recoveries>>
    /\ UNCHANGED <<retry_count, caller, result, tool_buffer, interrupt_occurred, reruns,
                   printed_run, printed_turn, redelivered, outside>>

(* The turn is over: execute_task returned to, or raised into, simple_cli. *)
EndTurn(how) ==
    /\ tpc' = "done"
    /\ result' = how
    /\ retry_count' = 0
    /\ caller' = "controller"

(* Lines 486-543 with pending interrupts: the decisions are collected and  *)
(* the stream is resumed with them.                                        *)
StreamEndsInterrupted ==
    /\ tpc = "stream"
    /\ interrupt_occurred
    /\ state' = start_spinner(stop_spinner(flush_text(state)))
    /\ interrupt_occurred' = FALSE
    /\ seen' = Reached(seen, flush_text(state))
    /\ UNCHANGED <<tpc, retry_count, caller, recover_at, result, tool_buffer, empty_tracker,
                   events, recoveries, reruns, late_fault, printed_run, printed_turn,
                   redelivered, outside>>

(* Line 595 with a session that has a sandbox: whether the refresh task is *)
(* created.                                                                *)
SpawnsRefresh_Always(up, sandbox_completer) == TRUE

SpawnsRefresh(up, sandbox_completer) == up /\ sandbox_completer

(* Lines 486-487, 541-543 and 585-612: the stream ends with no interrupt;  *)
(* the call returns None, and so does the call that awaits it.             *)
(* sandbox_completer tells whether the call was given a completer; with    *)
(* one, and a session that has a sandbox, the refresh task is created.     *)
StreamEnds(sandbox_completer) ==
    /\ tpc = "stream"
    /\ ~interrupt_occurred
    /\ state' = stop_spinner(flush_text(state))
    /\ seen' = [Reached(seen, flush_text(state)) EXCEPT
                    !.completer = sandbox_completer,
                    !.refresh_tasks = IF SpawnsRefresh(session.up, sandbox_completer)
                                      THEN @ + 1 ELSE @,
                    !.refresh = IF SpawnsRefresh(session.up, sandbox_completer)
                                THEN "pending" ELSE @]
    /\ EndTurn("completed")
    /\ UNCHANGED <<recover_at, tool_buffer, empty_tracker, interrupt_occurred, events,
                   recoveries, reruns, late_fault, printed_run, printed_turn, redelivered,
                   outside>>

(* Lines 545-557: KeyboardInterrupt or CancelledError in the stream.       *)
StreamCancelled ==
    /\ tpc = "stream"
    /\ state' = stop_spinner(state)
    /\ EndTurn("interrupted")
    /\ UNCHANGED <<recover_at, tool_buffer, empty_tracker, interrupt_occurred, events,
                   recoveries, reruns, late_fault, printed_run, printed_turn, redelivered,
                   seen,
                   outside>>

(* Whether an exception that leaves the retry reaches the except clause of *)
(* the first call: it does when the retry is awaited inside the try block  *)
(* (lines 370 and 407), not when it is awaited in the handler (line 571).  *)
CaughtByFirstCall(e) == retry_count = 1 /\ caller = "try" /\ is_sandbox_error(e) /\ session.up

(* Lines 559-583: the stream raises e.  A call that may recover calls      *)
(* recover_sandbox; otherwise it re-raises, and a retry awaited in the try *)
(* block of the first call re-raises into that call's handler, where       *)
(* _retry_count is 0 and the StreamingState is the first call's, whose     *)
(* spinner was stopped before the recovery; the retry's is left as it is.  *)
StreamRaises(e) ==
    /\ tpc = "stream"
    /\ late_fault' = (late_fault \/ (is_sandbox_error(e) /\ retry_count = 1))
    /\ IF is_sandbox_error(e) /\ MayRecover
       THEN /\ state' = stop_spinner(state)
            /\ CallRecover("handler")
            /\ UNCHANGED <<retry_count, caller, result>>
       ELSE IF CaughtByFirstCall(e)
            THEN /\ CallRecover("handler")
                 /\ retry_count' = 0
                 /\ caller' = "controller"
                 /\ UNCHANGED <<state, result>>
            ELSE /\ EndTurn(IF e = "sandbox" THEN "raised_sandbox" ELSE "raised_other")
                 /\ UNCHANGED <<state, recover_at, recoveries>>
    /\ UNCHANGED <<tool_buffer, empty_tracker, interrupt_occurred, events, reruns,
                   printed_run, printed_turn, redelivered, seen,
                   outside>>

(* Lines 367-379, 404-416 and 568-580: recover_sandbox returned true, by   *)
(* reattaching (same) or by creating a sandbox after invalidating the      *)
(* persisted record (new); the task is run again with _retry_count = 1.    *)
RecoverOk(how) ==
    /\ tpc = "recover"
    /\ IF how = "same"
       THEN UNCHANGED <<files, session, backend>>
       ELSE /\ NewIds \ backend # {}
            /\ files' = [files EXCEPT ![args.agent] = delete_persisted_session(@)]
            /\ session' = [up |-> TRUE, sandbox_id |-> FreshId(backend)]
            /\ backend' = backend \cup {FreshId(backend)}
    /\ tpc' = "stream"
    /\ retry_count' = 1
    /\ caller' = recover_at
    /\ reruns' = reruns + 1
    /\ NewFrame
    /\ UNCHANGED <<recover_at, result, recoveries, late_fault, printed_turn, storeFixed,
                   sessionFixed, mainVars, restVars, seen>>

(* Lines 380, 417 and 581: recover_sandbox returned false.                 *)
RecoverFails ==
    /\ tpc = "recover"
    /\ EndTurn("recovery_failed")
    /\ UNCHANGED <<recover_at, frameVars, recoveries, reruns, late_fault, printed_turn,
                   seen,
                   outside>>

(* Lines 596-608: the refresh task runs after execute_task returned.  It   *)
(* gives the completer the files of the sandbox, or an exception of        *)
(* get_sandbox, glob_files or set_files is caught and dropped.             *)
RefreshCache(ok) ==
    /\ seen.refresh = "pending"
    /\ seen' = [seen EXCEPT !.refresh = IF ok THEN "set_files" ELSE "swallowed"]
    /\ UNCHANGED <<tpc, retry_count, caller, recover_at, result, frameVars, recoveries,
                   reruns, late_fault, printed_turn, outside>>

(* Lines 171-175: the task mentions files and the session has a sandbox;   *)
(* KeyboardInterrupt or CancelledError arrives while session.get_sandbox() *)
(* is awaited, before the try block of line 259 is entered, and leaves     *)
(* execute_task.  No StreamingState has been made.                         *)
MentionsCancelled ==
    /\ tpc \in {"idle", "done"}
    /\ session.up
    /\ EndTurn("raised_interrupt")
    /\ recover_at' = ""
    /\ recoveries' = 0
    /\ reruns' = 0
    /\ late_fault' = FALSE
    /\ printed_turn' = NoLines
    /\ seen' = NothingSeen
    /\ UNCHANGED <<frameVars, outside>>

(* KeyboardInterrupt or CancelledError arrives while recover_sandbox is    *)
(* awaited: inside the try block (lines 367 and 404) it is caught by the   *)
(* clauses of lines 545-557; inside the handler of line 559 (line 568) it  *)
(* leaves execute_task.                                                    *)
RecoverCancelled ==
    /\ tpc = "recover"
    /\ IF recover_at = "try"
       THEN /\ state' = stop_spinner(state)
            /\ EndTurn("interrupted")
       ELSE /\ EndTurn("raised_interrupt")
            /\ UNCHANGED state
    /\ UNCHANGED <<recover_at, tool_buffer, empty_tracker, interrupt_occurred, events,
                   recoveries, reruns, late_fault, printed_run, printed_turn, redelivered,
                   seen,
                   outside>>

TurnNext ==
    \/ StartTurn
    \/ MentionsCancelled
    \/ RecoverCancelled
    \/ \E text \in {"ws", "text"}, final \in BOOLEAN : StreamText(text, final)
    \/ StreamHuman
    \/ StreamTodos
    \/ StreamInterrupt
    \/ \E k \in ChunkIds : StreamToolFragment(k)
    \/ \E k \in Ids : StreamToolCall(k)
    \/ \E name \in ToolNames, status \in Statuses, content \in Contents, healthy \in BOOLEAN :
            StreamToolResult(name, status, content, healthy)
    \/ StreamEndsInterrupted
    \/ \E sandbox_completer \in BOOLEAN : StreamEnds(sandbox_completer)
    \/ \E ok \in BOOLEAN : RefreshCache(ok)
    \/ StreamCancelled
    \/ \E e \in Exceptions : StreamRaises(e)
    \/ \E how \in {"same", "new"} : RecoverOk(how)
    \/ RecoverFails

SpecTurn == TurnInit /\ [][TurnNext]_vars

----------------------------------------------------------------------------
(* agent/tools: the tools the model calls, over the sandbox client.  The   *)
(* sandbox is the backend: each of its methods returns or raises.          *)

UserPaths == {"a.txt", "/home/daytona/a.txt", "/etc/passwd", "../x"}
DefaultSearchPath == "."
WorkDir == "/home/daytona"

(* sandbox.normalize_path: the absolute form of a path given relative to   *)
(* the working directory.                                                  *)
normalize_path(path) ==
    CASE path = "a.txt" -> "/home/daytona/a.txt"
      [] path = "../x" -> "/home/x"
      [] path = DefaultSearchPath -> WorkDir
      [] OTHER -> path

(* sandbox.virtualize_path: the form shown to the model.                   *)
virtualize_path(abs) == IF abs = "/home/daytona/a.txt" THEN "/a.txt" ELSE abs

(* sandbox.validate_path: whether the path is under an allowed directory.  *)
validate_path(abs) == abs \in {WorkDir, "/home/daytona/a.txt"}

ExcMessages == {"boom", "timed out"}
Raise(msg) == [kind |-> "raise", msg |-> msg, text |-> <<>>]
Give(kind, text) == [kind |-> kind, msg |-> "", text |-> text]

(* The pieces of the error strings.                                        *)
Denied(path) == Returns(<<"ERROR: ", "Access denied: ", path, " is not in allowed directories">>)

(* Failed letting the exception out of the tool.                           *)
Failed_Propagates(what, msg) == [parts |-> <<>>, lines |-> <<>>, raised |-> msg]

(* The except clause of every tool: file_ops.py 94-97, 159-162, 244-247,   *)
(* glob.py 98-101, grep.py 190-200, execute.py 148-156.                    *)
Failed(what, msg) == Returns(<<"ERROR: ", what, msg>>)

(* PathDenied with the check left out.                                     *)
PathDenied_Never(validation, path) == FALSE

(* Every tool checks the path the same way before its backend call:        *)
(* file_ops.py 60-63, 135-138, 222-225, glob.py 70-73, grep.py 124-127.    *)
PathDenied(validation, path) == validation /\ ~validate_path(normalize_path(path))

(* What a tool did: the backend calls it made and what it returned.        *)
Did(calls, ret) == [calls |-> calls, ret |-> ret]

(* file_ops.py 79-85: the lines of the content, numbered from start_line.  *)
NumberLines(text, start_line) ==
    [i \in 1..Len(text) |-> [num |-> start_line + i - 1, line |-> text[i]]]

Contents1 == {<<>>, <<"x">>, <<"x", "y">>}
Offsets == {-1, 0, 2}        \* -1 stands for None

(* file_ops.py 54-96: read_file.  out is what the backend call does.       *)
read_file(path, offset, limit, validation, out) ==
    IF PathDenied(validation, path) THEN Did(<<>>, Denied(path))
    ELSE LET call == IF offset # -1 \/ limit # -1 THEN "read_file_range" ELSE "read_file"
         IN CASE out.kind = "raise" -> Did(<<call>>, Failed("Failed to read file: ", out.msg))
              [] out.kind = "none" ->
                    Did(<<call>>, Returns(<<"ERROR: ", "File not found: ", path>>))
              [] OTHER ->
                    Did(<<call>>,
                        [parts |-> <<>>, raised |-> "",
                         lines |-> NumberLines(out.text, IF offset \in {-1, 0} THEN 1 ELSE offset)])

(* file_ops.py 129-161: write_file.                                        *)
write_file(path, validation, out) ==
    IF PathDenied(validation, path) THEN Did(<<>>, Denied(path))
    ELSE CASE out.kind = "raise" ->
                    Did(<<"write_file">>, Failed("Failed to write file: ", out.msg))
           [] out.kind = "true" ->
                    Did(<<"write_file">>,
                        Returns(<<"Wrote ", "n", " bytes to ", virtualize_path(normalize_path(path))>>))
           [] OTHER -> Did(<<"write_file">>, Returns(<<"ERROR: ", "Write operation failed">>))

(* file_ops.py 210-246: edit_file.  The backend answers with a dict.       *)
edit_file(path, validation, out) ==
    IF PathDenied(validation, path) THEN Did(<<>>, Denied(path))
    ELSE CASE out.kind = "raise" ->
                    Did(<<"edit_file">>, Failed("Failed to edit file: ", out.msg))
           [] out.kind = "success" ->
                    Did(<<"edit_file">>,
                        Returns(IF out.text = <<>> THEN <<"File edited successfully">> ELSE out.text))
           [] OTHER ->
                    Did(<<"edit_file">>,
                        Returns(<<"ERROR: ">> \o (IF out.text = <<>> THEN <<"Edit operation failed">>
                                                  ELSE out.text)))

(* glob.py 62-102: glob.  path may be None, which searches ".".            *)
glob(path, validation, out) ==
    LET search_path == IF path = "" THEN DefaultSearchPath ELSE path
    IN IF PathDenied(validation, search_path) THEN Did(<<>>, Denied(search_path))
       ELSE CASE out.kind = "raise" ->
                    Did(<<"glob_files">>, Failed("Failed to glob files: ", out.msg))
              [] out.text = <<>> ->
                    Did(<<"glob_files">>, Returns(<<"No files matching pattern", search_path>>))
              [] OTHER ->
                    Did(<<"glob_files">>,
                        Returns(<<"Found ">> \o [i \in 1..Len(out.text) |->
                                                    virtualize_path(out.text[i])]))

(* grep.py 109-200: grep.                                                  *)
grep(path, validation, out) ==
    LET search_path == IF path = "" THEN DefaultSearchPath ELSE path
    IN IF PathDenied(validation, search_path) THEN Did(<<>>, Denied(search_path))
       ELSE CASE out.kind = "raise" ->
                    Did(<<"grep_content">>, Failed("Failed to grep content: ", out.msg))
              [] out.text = <<>> ->
                    Did(<<"grep_content">>, Returns(<<"No matches found", search_path>>))
              [] OTHER ->
                    Did(<<"grep_content">>,
                        Returns(<<"Found matches">> \o [i \in 1..Len(out.text) |->
                                                            virtualize_path(out.text[i])]))

DEFAULT_TIMEOUT_MS == 120000
FALLBACK_TIMEOUT_SECONDS == 120
MAX_TIMEOUT_MS == 600000

(* A timeout argument: left out (the default applies), None, or an integer *)
(* of milliseconds.                                                        *)
TimeoutArg(kind, ms) == [kind |-> kind, ms |-> ms]

TimeoutArgs ==
    {TimeoutArg("default", 0), TimeoutArg("none", 0)}
        \cup {TimeoutArg("int", ms) : ms \in {-1, 0, 1500, DEFAULT_TIMEOUT_MS, MAX_TIMEOUT_MS,
                                               MAX_TIMEOUT_MS + 1, 900000}}

(* Seconds as a whole part and thousandths: the float timeout / 1000.      *)
Seconds(whole, milli) == [whole |-> whole, milli |-> milli]

(* execute.py 25 and 100: timeout / 1000 if timeout else 120.              *)
timeout_seconds(timeout) ==
    LET ms == IF timeout.kind = "default" THEN DEFAULT_TIMEOUT_MS ELSE timeout.ms
    IN IF timeout.kind = "none" \/ ms = 0 THEN Seconds(FALLBACK_TIMEOUT_SECONDS, 0)
       ELSE Seconds(ms \div 1000, ms % 1000)

(* execute.py 90-156: Bash.  The backend answers with a dict: success with *)
(* stdout and stderr, or failure with stderr (possibly absent).            *)
Bash(out) ==
    CASE out.kind = "raise" ->
            Did(<<"execute_bash_command">>, Failed("Failed to execute bash command: ", out.msg))
      [] out.kind = "success" ->
            LET stdout == out.text[1]
                stderr == out.text[2]
                output == IF stderr = "" THEN <<stdout>>
                          ELSE IF stdout = "" THEN <<stderr>> ELSE <<stdout, "\n", stderr>>
            IN Did(<<"execute_bash_command">>,
                   Returns(IF output = <<"">> THEN <<"Command completed successfully">>
                           ELSE output))
      [] OTHER ->
            Did(<<"execute_bash_command">>,
                Returns(<<"ERROR: ", "Command failed (exit code ", "1", ")\n">>
                        \o (IF out.text = <<>> THEN <<"Command execution failed">> ELSE out.text)))

(* What the backend can do for each tool.                                  *)
Raises == {Raise(msg) : msg \in ExcMessages}
ReadOutcomes == Raises \cup {Give("none", <<>>)} \cup {Give("content", c) : c \in Contents1}
WriteOutcomes == Raises \cup {Give("true", <<>>), Give("false", <<>>)}
EditOutcomes ==
    Raises \cup {Give(k, t) : k \in {"success", "failure"}, t \in {<<>>, <<"message">>}}
SearchOutcomes == Raises \cup {Give("list", <<>>), Give("list", <<"/home/daytona/a.txt">>)}
BashOutcomes ==
    Raises \cup {Give("success", <<o, e>>) : o \in {"", "out"}, e \in {"", "err"}}
           \cup {Give("failure", t) : t \in {<<>>, <<"err">>}}

Invocation(name, path, validation, timeout, handed, out, did) ==
    [name |-> name, path |-> path, validation |-> validation, timeout |-> timeout,
     out |-> out, calls |-> did.calls, handed |-> handed, ret |-> did.ret]

NoTimeout == TimeoutArg("default", 0)
NotHanded == Seconds(0, 0)

others == <<storeVars, sessionVars, turnVars, mainVars, ctl, keys, hitl, sw, fgp, disk>>

ToolsInit ==
    /\ StoreInit
    /\ files["alpha"] = NoFile

(* The model calls a tool; the invocation runs to its return.              *)
ToolReadFile(path, offset, limit, validation, out) ==
    /\ tool' = Invocation("read_file", path, validation, NoTimeout, NotHanded, out,
                          read_file(path, offset, limit, validation, out))
    /\ UNCHANGED others

ToolWriteFile(path, validation, out) ==
    /\ tool' = Invocation("write_file", path, validation, NoTimeout, NotHanded, out,
                          write_file(path, validation, out))
    /\ UNCHANGED others

ToolEditFile(path, validation, out) ==
    /\ tool' = Invocation("edit_file", path, validation, NoTimeout, NotHanded, out,
                          edit_file(path, validation, out))
    /\ UNCHANGED others

ToolGlob(path, validation, out) ==
    /\ tool' = Invocation("glob", path, validation, NoTimeout, NotHanded, out,
                          glob(path, validation, out))
    /\ UNCHANGED others

ToolGrep(path, validation, out) ==
    /\ tool' = Invocation("grep", path, validation, NoTimeout, NotHanded, out,
                          grep(path, validation, out))
    /\ UNCHANGED others

ToolBash(timeout, out) ==
    /\ tool' = Invocation("Bash", "", FALSE, timeout, timeout_seconds(timeout), out, Bash(out))
    /\ UNCHANGED others

ToolsNext ==
    \/ \E path \in UserPaths, offset \in Offsets, limit \in {-1, 1}, validation \in BOOLEAN,
          out \in ReadOutcomes : ToolReadFile(path, offset, limit, validation, out)
    \/ \E path \in UserPaths, validation \in BOOLEAN, out \in WriteOutcomes :
            ToolWriteFile(path, validation, out)
    \/ \E path \in UserPaths, validation \in BOOLEAN, out \in EditOutcomes :
            ToolEditFile(path, validation, out)
    \/ \E path \in UserPaths \cup {""}, validation \in BOOLEAN, out \in SearchOutcomes :
            ToolGlob(path, validation, out)
    \/ \E path \in UserPaths \cup {""}, validation \in BOOLEAN, out \in SearchOutcomes :
            ToolGrep(path, validation, out)
    \/ \E timeout \in TimeoutArgs, out \in BashOutcomes : ToolBash(timeout, out)

SpecTools == ToolsInit /\ [][ToolsNext]_vars

----------------------------------------------------------------------------
(* main.py: simple_cli, the loop that reads a line and routes it.  A line  *)
(* is a sequence of pieces of text; " " is white space.                    *)

MaxLineLen == 3           \* pieces in an input line

Pieces == {" ", "/", "!", "q", "quit", "EXIT", "model"}

Lines == UNION {[1..n -> Pieces] : n \in 0..MaxLineLen}

RECURSIVE lstrip(_)
lstrip(line) == IF line # <<>> /\ Head(line) = " " THEN lstrip(Tail(line)) ELSE line

RECURSIVE rstrip(_)
rstrip(line) ==
    IF line # <<>> /\ line[Len(line)] = " " THEN rstrip(SubSeq(line, 1, Len(line) - 1)) ELSE line

strip(line) == rstrip(lstrip(line))

LowerPiece(x) == IF x = "EXIT" THEN "exit" ELSE x

lower(line) == [i \in 1..Len(line) |-> LowerPiece(line[i])]

startswith(line, x) == line # <<>> /\ Head(line) = x

QuitKeywords == {<<"quit">>, <<"exit">>, <<"q">>}

(* handle_command answering nothing for a command it does not know.        *)
handle_command_UnknownUnhandled(command, switched) ==
    LET cmd_lower == lower(strip(command))
    IN IF cmd_lower \in {<<"/", "exit">>, <<"/", "q">>} THEN "exit"
       ELSE IF cmd_lower = <<"/", "model">>
            THEN IF switched THEN "model_switched" ELSE "handled"
            ELSE ""

(* slash.py 510-583: handle_command.  switched is whether /model changed   *)
(* the model.                                                              *)
handle_command(command, switched) ==
    LET cmd_lower == lower(strip(command))
    IN IF cmd_lower \in {<<"/", "exit">>, <<"/", "q">>} THEN "exit"
       ELSE IF cmd_lower = <<"/", "model">>
            THEN IF switched THEN "model_switched" ELSE "handled"
            ELSE "handled"

BASH_ESCAPE_TIMEOUT == 60

(* bash.py 13-61: execute_bash_command: the timeouts of the sandbox        *)
(* commands it runs.                                                       *)
execute_bash_command(command, sandbox) ==
    LET bash_cmd == strip(Tail(command))
    IN IF bash_cmd = <<>> \/ ~sandbox THEN <<>> ELSE <<BASH_ESCAPE_TIMEOUT>>

(* main.py 331-382: one pass of the loop on the line the prompt returned.  *)
(* What it does is recorded: the route taken, the calls of execute_task    *)
(* and the sandbox commands of the bash escape.                            *)
Routed(loop, line, route, handled_by, tasks, shell) ==
    [loop |-> loop, line |-> line, route |-> route, handled_by |-> handled_by,
     execute_task |-> tasks, shell |-> shell]

Pass(raw, switched, sandbox) ==
    LET user_input == strip(raw)
        answer == handle_command(user_input, switched)
    IN IF user_input = <<>> THEN Routed("prompt", user_input, "empty", "", <<>>, <<>>)
       ELSE IF startswith(user_input, "/") /\ answer = "exit"
            THEN Routed("ended", user_input, "slash", answer, <<>>, <<>>)
       ELSE IF startswith(user_input, "/") /\ answer # ""
            THEN Routed("prompt", user_input, "slash", answer, <<>>, <<>>)
       ELSE IF startswith(user_input, "!")
            THEN Routed("prompt", user_input, "bash", "", <<>>,
                        execute_bash_command(user_input, sandbox))
       ELSE IF lower(user_input) \in QuitKeywords
            THEN Routed("ended", user_input, "quit", "", <<>>, <<>>)
       ELSE Routed("prompt", user_input, "task", "", <<user_input>>, <<>>)

apart == <<storeVars, sessionVars, turnVars, mainVars, tool, keys, hitl, sw, fgp, disk>>

ControllerInit == ToolsInit

(* A pass reads nothing of the passes before it: a behaviour follows the   *)
(* loop through its first line.                                            *)
FirstPass == ctl.loop = "prompt" /\ ctl.route = ""

(* Lines 332-382: the prompt returns a line and the pass runs to the next  *)
(* prompt or to the break.                                                 *)
ReadLine(raw, switched, sandbox) ==
    /\ FirstPass
    /\ ctl' = Pass(raw, switched, sandbox)
    /\ UNCHANGED apart

(* Lines 340-344: the prompt raises EOFError (Ctrl+D) or KeyboardInterrupt. *)
PromptRaises(e) ==
    /\ FirstPass
    /\ ctl' = Routed("ended", <<>>, e, "", <<>>, <<>>)
    /\ UNCHANGED apart

(* Lines 354-361 and 379: the handler of a slash command other than /exit *)
(* raises, or execute_task does, and so does simple_cli.                   *)
PassRaises(raw) ==
    /\ FirstPass
    /\ LET done == Pass(raw, FALSE, TRUE)
       IN /\ done.loop = "prompt"
          /\ done.route \in {"slash", "task"}
          /\ ctl' = [done EXCEPT !.loop = "raised",
                                 !.handled_by = IF done.route = "slash" THEN "raise" ELSE ""]
    /\ UNCHANGED apart

ControllerNext ==
    \/ \E raw \in Lines, switched \in BOOLEAN, sandbox \in BOOLEAN : ReadLine(raw, switched, sandbox)
    \/ \E e \in {"EOFError", "KeyboardInterrupt"} : PromptRaises(e)
    \/ \E raw \in Lines : PassRaises(raw)

SpecController == ControllerInit /\ [][ControllerNext]_vars

----------------------------------------------------------------------------
(* input/prompt.py: the Ctrl+C key binding of the prompt, with the timer   *)
(* and the toolbar that reset its fields.  Time is time.monotonic() in     *)
(* seconds.                                                                *)

EXIT_CONFIRM_WINDOW == 3
CTRL_C_EXIT_COUNT == 3
MaxMono == 7              \* the clock stops here

(* WindowExpired never holding: the count is never restarted.              *)
WindowExpired_Never(exit_hint_until, t) == FALSE

(* prompt.py 130: the window is closed or over.                            *)
WindowExpired(exit_hint_until, t) == exit_hint_until = None \/ t >= exit_hint_until

elsewhere == <<storeVars, sessionVars, turnVars, mainVars, tool, ctl, hitl, sw, fgp, disk>>

Prompting == ~keys.exited

KeysInit == ToolsInit

(* The user types into the buffer.                                         *)
TypeText ==
    /\ Prompting
    /\ keys.text = ""
    /\ keys' = [keys EXCEPT !.text = "text", !.press = NoPress]
    /\ UNCHANGED elsewhere

(* What the press found: the count, and whether a window opened by the     *)
(* press before it was still running.                                      *)
Pressed(kind) ==
    [kind |-> kind, count_before |-> keys.ctrl_c_count,
     in_window |-> keys.opened # None /\ keys.mono < keys.opened + 3]

(* prompt.py 111-124: Ctrl+C with text in the buffer.                      *)
CtrlCWithText ==
    /\ Prompting
    /\ keys.text # ""
    /\ keys' = [keys EXCEPT !.text = "", !.ctrl_c_count = 0, !.exit_hint_until = None,
                            !.exit_hint_handle = None, !.opened = None,
                            !.press = Pressed("text")]
    /\ UNCHANGED elsewhere

(* prompt.py 126-161: Ctrl+C with an empty buffer.                         *)
CtrlCEmpty ==
    /\ Prompting
    /\ keys.text = ""
    /\ LET count == (IF WindowExpired(keys.exit_hint_until, keys.mono) THEN 0
                     ELSE keys.ctrl_c_count) + 1
           leave == count >= CTRL_C_EXIT_COUNT
       IN keys' = [keys EXCEPT !.ctrl_c_count = count,
                               !.exit_hint_until = keys.mono + EXIT_CONFIRM_WINDOW,
                               !.exit_hint_handle = IF leave THEN None
                                                    ELSE keys.mono + EXIT_CONFIRM_WINDOW,
                               !.exited = leave,
                               !.opened = keys.mono,
                               !.press = Pressed("empty")]
    /\ UNCHANGED elsewhere

(* prompt.py 149-156: the timer set by call_later runs clear_hint, at its  *)
(* time or later.                                                          *)
TimerFires ==
    /\ Prompting
    /\ keys.exit_hint_handle # None
    /\ keys.mono >= keys.exit_hint_handle
    /\ keys' = IF keys.exit_hint_until # None /\ keys.mono >= keys.exit_hint_until
               THEN [keys EXCEPT !.exit_hint_until = None, !.exit_hint_handle = None,
                                 !.ctrl_c_count = 0, !.press = NoPress]
               ELSE [keys EXCEPT !.exit_hint_handle = None, !.press = NoPress]
    /\ UNCHANGED elsewhere

(* prompt.py 69-82: the toolbar is drawn.                                  *)
ToolbarDrawn ==
    /\ Prompting
    /\ keys.exit_hint_until # None
    /\ keys' = IF keys.mono < keys.exit_hint_until /\ keys.ctrl_c_count > 0
               THEN [keys EXCEPT !.press = NoPress]
               ELSE [keys EXCEPT !.exit_hint_until = None, !.ctrl_c_count = 0,
                                 !.press = NoPress]
    /\ UNCHANGED elsewhere

(* main.py 333-338: the prompt returns a line; the hint is withdrawn, and  *)
(* the next prompt starts with an empty buffer.                            *)
LineSubmitted ==
    /\ Prompting
    /\ keys' = [keys EXCEPT !.text = "", !.exit_hint_until = None, !.exit_hint_handle = None,
                            !.opened = None, !.press = NoPress]
    /\ UNCHANGED elsewhere

(* A second passes.                                                        *)
MonoTick ==
    /\ Prompting
    /\ keys.mono < MaxMono
    /\ keys' = [keys EXCEPT !.mono = @ + 1, !.press = NoPress]
    /\ UNCHANGED elsewhere

KeysNext ==
    \/ TypeText
    \/ CtrlCWithText
    \/ CtrlCEmpty
    \/ TimerFires
    \/ ToolbarDrawn
    \/ LineSubmitted
    \/ MonoTick

SpecKeys == KeysInit /\ [][KeysNext]_vars

----------------------------------------------------------------------------
(* streaming/executor.py: the interrupt loop of execute_task.  The stream  *)
(* delivers update chunks that may carry HITL interrupts; after the stream *)
(* the pending interrupts are resolved, by auto-approval or by asking the  *)
(* user about every action request, and the stream is resumed with a       *)
(* Command that carries the decisions and a message for the agent.         *)

MaxRequests == 2          \* action requests in one interrupt
MaxInterrupts == 2        \* interrupt objects in one update chunk

InterruptIds == {"i1", "i2"}

(* An action request; its description is shown to the user and nothing     *)
(* else of it is read.                                                     *)
ActionRequests == {[description |-> "plan"]}

RequestLists == UNION {[1..n -> ActionRequests] : n \in 0..MaxRequests}

(* What the user may type as feedback.  No text is part of another or of   *)
(* the fixed text of a message, so that a text appears in a message        *)
(* exactly when it is one of the message's pieces.                         *)
FeedbackTexts == {"", "use tabs", "add tests"}

(* What the user does at one plan review: accept, reject and type a        *)
(* feedback text, or press Ctrl+C (at the menu or at the feedback prompt). *)
Answers ==
    {[choice |-> "accept", text |-> ""], [choice |-> "cancel", text |-> ""]}
        \cup {[choice |-> "reject", text |-> f] : f \in FeedbackTexts}

AnswerLists(n) == [1..n -> Answers]

(* An interrupt object of an update chunk: its id, its value, and whether  *)
(* the value validates as a HITLRequest.                                   *)
InterruptObjects ==
    [id : InterruptIds, action_requests : RequestLists, valid : BOOLEAN]

Chunks == UNION {[1..n -> InterruptObjects] : n \in 1..MaxInterrupts}

Approve == [type |-> "approve"]

Reject == [type |-> "reject"]

(* d[k] = v on a dict: an existing key keeps its place.                    *)
DictSet(d, k, v) ==
    IF \E i \in 1..Len(d) : d[i].key = k
    THEN [i \in 1..Len(d) |-> IF d[i].key = k THEN [key |-> k, value |-> v] ELSE d[i]]
    ELSE Append(d, [key |-> k, value |-> v])

DictKeys(d) == {d[i].key : i \in 1..Len(d)}

(* Python's `x or default` on a value that is None or a string.            *)
OrElse(x, default) == IF x = Absent \/ x = Str("") THEN default ELSE x[1]

(* _prompt_for_plan_approval returning no feedback text for a cancelled    *)
(* review.                                                                 *)
prompt_for_plan_approval_CancelSilent(answer) ==
    CASE answer.choice = "cancel" -> [decision |-> [type |-> "reject"], feedback |-> <<>>]
      [] answer.choice = "accept" -> [decision |-> [type |-> "approve"], feedback |-> <<>>]
      [] OTHER ->
            [decision |-> [type |-> "reject"],
             feedback |-> <<IF answer.text = "" THEN "No feedback provided" ELSE answer.text>>]

(* Lines 131-146: what _prompt_for_plan_approval returns for an answer.    *)
prompt_for_plan_approval(answer) ==
    CASE answer.choice = "cancel" ->
            [decision |-> Reject, feedback |-> Str("User cancelled")]
      [] answer.choice = "accept" ->
            [decision |-> Approve, feedback |-> Absent]
      [] OTHER ->
            [decision |-> Reject,
             feedback |-> Str(OrElse(Str(answer.text), "No feedback provided"))]

(* Auto-approval answering with one approval whatever the interrupt asks.  *)
auto_decisions_Single(action_requests) == <<Approve>>

(* Lines 502-505: one approval for every action request.                   *)
auto_decisions(action_requests) ==
    [j \in 1..Len(action_requests) |-> Approve]

(* Lines 511-517: the action requests of one interrupt put to the user in  *)
(* order, from the state st = [decisions, any_rejected, rejection_feedback]*)
RECURSIVE AskAll(_, _, _)
AskAll(answers, j, st) ==
    IF j > Len(answers) THEN st
    ELSE LET got == prompt_for_plan_approval(answers[j])
             rejected == got.decision.type = "reject"
         IN  AskAll(answers, j + 1,
                    [decisions |-> Append(st.decisions, got.decision),
                     any_rejected |-> st.any_rejected \/ rejected,
                     rejection_feedback |->
                         IF rejected THEN got.feedback ELSE st.rejection_feedback])

(* Lines 284-296: the interrupt objects of one chunk in order; a value     *)
(* that does not validate is logged and skipped.  delivered holds the ids  *)
(* of the interrupts the stream has carried.                               *)
RECURSIVE Collect(_, _, _)
Collect(chunk, i, h) ==
    IF i > Len(chunk) THEN h
    ELSE Collect(chunk, i + 1,
            IF chunk[i].valid
            THEN [h EXCEPT !.pending_interrupts =
                               DictSet(@, chunk[i].id, chunk[i].action_requests),
                           !.interrupt_occurred = TRUE,
                           !.delivered = @ \cup {chunk[i].id}]
            ELSE [h EXCEPT !.warned = TRUE,
                           !.delivered = @ \cup {chunk[i].id}])

(* Lines 522-531: the message injected for the agent, in pieces.           *)
RejectedMsg(feedback_text) ==
    <<"<system-reminder>Your plan was rejected. User feedback: ", feedback_text,
      "</system-reminder>">>

ApprovedMsg ==
    <<"<system-reminder>Your plan was approved. Proceed with execution.</system-reminder>">>

(* The message built as if a plan were rejected whenever it is resolved.    *)
decision_msg_Rejected(any_rejected, rejection_feedback) ==
    RejectedMsg(OrElse(rejection_feedback, "No feedback provided"))

decision_msg(any_rejected, rejection_feedback) ==
    IF any_rejected
    THEN RejectedMsg(OrElse(rejection_feedback, "No feedback provided"))
    ELSE ApprovedMsg

(* Lines 247-250: the reminder of plan mode, and the task as the user gave *)
(* it (final_input).                                                       *)
PlanReminder ==
    "<system-reminder>You are in Plan Mode. Before executing any write operations"

UserInput == "task"

UserMessage(content) == [role |-> "user", content |-> content]

(* build_messages leaving the reminder out.                                *)
build_messages_NoReminder(plan_mode, final_input) == <<UserMessage(final_input)>>

(* Lines 243-253: the messages of the first stream input.                  *)
build_messages(plan_mode, final_input) ==
    (IF plan_mode THEN <<UserMessage(PlanReminder)>> ELSE <<>>)
        \o <<UserMessage(final_input)>>

aside == <<storeVars, sessionVars, turnVars, mainVars, tool, ctl, keys, sw, fgp, disk>>

HitlInit == ToolsInit

(* input/prompt.py 166-169 and core/state.py 49-56: Shift+Tab at the       *)
(* prompt toggles plan mode, before a task is submitted.                   *)
TogglePlanMode ==
    /\ hitl.phase = "idle"
    /\ hitl' = [hitl EXCEPT !.plan_mode = ~@]
    /\ UNCHANGED aside

(* Lines 242-263: the first stream input is built and the interrupt loop   *)
(* entered; session_state.auto_approve is what the session has it set to.  *)
TaskStarts(auto) ==
    /\ hitl.phase = "idle"
    /\ hitl' = [NoHitl EXCEPT !.phase = "streaming", !.auto_approve = auto,
                              !.plan_mode = hitl.plan_mode, !.opened_with = "dict",
                              !.messages = build_messages(hitl.plan_mode, UserInput)]
    /\ UNCHANGED aside

(* Lines 367-379, 404-416 and 568-580 followed by lines 242-263: after a   *)
(* recovery execute_task is called again with the same task, builds its    *)
(* input anew and enters its own interrupt loop.                           *)
TaskRetried ==
    /\ hitl.phase = "streaming"
    /\ ~hitl.retried
    /\ hitl' = [NoHitl EXCEPT !.phase = "streaming", !.auto_approve = hitl.auto_approve,
                              !.plan_mode = hitl.plan_mode, !.opened_with = "dict",
                              !.messages = build_messages(hitl.plan_mode, UserInput),
                              !.retried = TRUE]
    /\ UNCHANGED aside

(* Lines 278-296: an update chunk with a non-empty "__interrupt__" list.   *)
UpdateChunk(chunk) ==
    /\ hitl.phase = "streaming"
    /\ hitl' = Collect(chunk, 1, hitl)
    /\ UNCHANGED aside

(* Lines 486-496 and 541-543: the stream is over; with an interrupt        *)
(* pending the resolution starts, otherwise the loop is left.              *)
InterruptStreamEnds ==
    /\ hitl.phase = "streaming"
    /\ hitl' = IF hitl.interrupt_occurred /\ hitl.pending_interrupts # <<>>
               THEN [hitl EXCEPT !.phase = "resolving", !.at = 1, !.any_rejected = FALSE,
                                 !.rejection_feedback = Absent, !.asked = <<>>]
               ELSE [hitl EXCEPT !.phase = "done"]
    /\ UNCHANGED aside

Resolving ==
    /\ hitl.phase = "resolving"
    /\ hitl.at <= Len(hitl.pending_interrupts)

(* Lines 498-507 and 519: the next pending interrupt, auto-approved.       *)
ResolveAuto ==
    /\ Resolving
    /\ hitl.auto_approve
    /\ LET entry == hitl.pending_interrupts[hitl.at]
       IN  hitl' = [hitl EXCEPT
               !.hitl_response = DictSet(@, entry.key, [decisions |-> auto_decisions(entry.value)]),
               !.asked = Append(@, [key |-> entry.key, answers |-> <<>>]),
               !.at = @ + 1]
    /\ UNCHANGED aside

(* Lines 498-519: the next pending interrupt, every action request of it   *)
(* put to the user.                                                        *)
ResolvePrompted(answers) ==
    /\ Resolving
    /\ ~hitl.auto_approve
    /\ LET entry == hitl.pending_interrupts[hitl.at]
           st == AskAll(answers, 1,
                        [decisions |-> <<>>, any_rejected |-> hitl.any_rejected,
                         rejection_feedback |-> hitl.rejection_feedback])
       IN  /\ Len(answers) = Len(entry.value)
           /\ hitl' = [hitl EXCEPT
                  !.hitl_response = DictSet(@, entry.key, [decisions |-> st.decisions]),
                  !.any_rejected = st.any_rejected,
                  !.rejection_feedback = st.rejection_feedback,
                  !.asked = Append(@, [key |-> entry.key, answers |-> answers]),
                  !.at = @ + 1]
    /\ UNCHANGED aside

(* Lines 521-539: every pending interrupt has its decisions; the message   *)
(* is built and the Command made that resumes the stream.                  *)
Resume ==
    /\ hitl.phase = "resolving"
    /\ hitl.at > Len(hitl.pending_interrupts)
    /\ hitl' = [hitl EXCEPT
           !.phase = "resumed",
           !.stream_input =
               [resume |-> hitl.hitl_response,
                update |-> decision_msg(hitl.any_rejected, hitl.rejection_feedback)]]
    /\ UNCHANGED aside

(* Lines 260-265: the loop comes round; the Command is handed to the agent *)
(* as the input of the next stream and the collections start empty.        *)
LoopAgain ==
    /\ hitl.phase = "resumed"
    /\ hitl' = [NoHitl EXCEPT !.phase = "streaming", !.auto_approve = hitl.auto_approve,
                              !.plan_mode = hitl.plan_mode, !.opened_with = "command",
                              !.retried = hitl.retried]
    /\ UNCHANGED aside

HitlNext ==
    \/ \E auto \in BOOLEAN : TaskStarts(auto)
    \/ \E chunk \in Chunks : UpdateChunk(chunk)
    \/ InterruptStreamEnds
    \/ ResolveAuto
    \/ \E n \in 0..MaxRequests : \E answers \in AnswerLists(n) : ResolvePrompted(answers)
    \/ Resume
    \/ LoopAgain

SpecHitl == HitlInit /\ [][HitlNext]_vars

(* The stream inputs of a task in plan mode or out of it, with its retry:  *)
(* the update chunks carry one plan to review.                             *)
PlanChunks == {chunk \in Chunks : Len(chunk) = 1 /\ Len(chunk[1].action_requests) = 1}

PlanNext ==
    \/ TogglePlanMode
    \/ \E auto \in BOOLEAN : TaskStarts(auto)
    \/ TaskRetried
    \/ \E chunk \in PlanChunks : UpdateChunk(chunk)
    \/ InterruptStreamEnds
    \/ ResolveAuto
    \/ \E answers \in AnswerLists(1) : ResolvePrompted(answers)
    \/ Resume
    \/ LoopAgain

SpecPlan == HitlInit /\ [][PlanNext]_vars

----------------------------------------------------------------------------
(* commands/slash.py _handle_model_command, with the parts of the loop     *)
(* that matter to it: a task runs on the agent behind agent_ref under the  *)
(* current thread id and leaves state in that agent's checkpointer; /clear *)
(* makes a new thread id; /model builds a new agent.                       *)

MaxThreads == 2           \* thread ids made by /clear in a behaviour
MaxAgents == 2            \* agents made by /model in a behaviour

Models == {"m1", "m2"}

(* The model picked in the menu; "" when the menu was left with Esc or     *)
(* Ctrl+C.                                                                 *)
Selections == Models \cup {""}

(* checkpointer.get_tuple answers or raises; load_llm_catalog returns the  *)
(* catalog, an empty one, or raises; get_llm_client or create_agent may    *)
(* raise.                                                                  *)
Queries == {"answer", "raise"}
Catalogs == {"ok", "empty", "FileNotFoundError", "ValueError"}
Failures == {"", "get_llm_client", "create_agent"}

(* The gate left open.                                                     *)
ActiveConversation_Never(saved, thread_id, query) == FALSE

(* slash.py 358-375: the checkpointer of the agent is asked for the thread *)
(* id; the command is refused when it answers with a state.  A query that  *)
(* raises lets the command go on.                                          *)
ActiveConversation(saved, thread_id, query) ==
    query = "answer" /\ thread_id \in saved

Triple(w) == <<w.name, w.ptc_llm, w.agent.model>>

(* slash.py 418-446 for a selected model other than the current one: the   *)
(* configuration is updated, then the client is made and given to the      *)
(* PTCAgent, then recreate_agent (main.py 38-58) makes the agent with a    *)
(* new checkpointer and puts it behind agent_ref.  An exception at any of  *)
(* the steps ends the command with what was assigned before it.            *)
SwitchTo(w, selected, fails) ==
    LET named == [w EXCEPT !.name = selected]
        given == [named EXCEPT !.ptc_llm = selected]
        made == [given EXCEPT !.agent = [serial |-> w.agents + 1, model |-> selected],
                              !.agents = @ + 1,
                              !.saved = {}]
    IN  CASE fails = "get_llm_client" -> named
          [] fails = "create_agent" -> given
          [] OTHER -> made

(* slash.py 353-446: what /model returns and the state it leaves.          *)
handle_model_command(w, query, catalog, selected, fails) ==
    LET refused == ActiveConversation(w.saved, w.thread_id, query)
        switching == ~refused /\ catalog = "ok" /\ selected # "" /\ selected # w.name
        after == IF switching THEN SwitchTo(w, selected, fails) ELSE w
    IN  [after EXCEPT !.cmd =
            [returned |-> IF switching /\ fails = "" THEN "model_switched" ELSE "handled",
             held |-> w.thread_id \in w.saved,
             query |-> query,
             selected |-> IF switching THEN selected ELSE "",
             fails |-> IF switching THEN fails ELSE "",
             before |-> Triple(w),
             replaced |-> after.agent # w.agent,
             refused |-> refused]]

besides == <<storeVars, sessionVars, turnVars, mainVars, tool, ctl, keys, hitl, fgp, disk>>

SwitchInit == ToolsInit

(* main.py 348-349 and 379: a task runs on the agent behind agent_ref with *)
(* the current thread id; saves tells whether the graph got as far as      *)
(* writing a checkpoint.                                                   *)
SwitchTask(saves) ==
    /\ sw' = [sw EXCEPT !.saved = IF saves THEN @ \cup {sw.thread_id} ELSE @,
                        !.fresh = FALSE,
                        !.ran_on = <<sw.agent>>,
                        !.cmd = NoModelCommand]
    /\ UNCHANGED besides

(* slash.py 541-543 and state.py 58-65: /clear makes a new thread id.      *)
ClearCommand ==
    /\ sw.thread_id < MaxThreads
    /\ sw' = [sw EXCEPT !.thread_id = @ + 1, !.fresh = TRUE, !.cmd = NoModelCommand,
                        !.ran_on = <<>>]
    /\ UNCHANGED besides

(* slash.py 353-446: /model.                                               *)
ModelCommand(query, catalog, selected, fails) ==
    /\ sw.agents < MaxAgents
    /\ sw' = [handle_model_command(sw, query, catalog, selected, fails) EXCEPT !.ran_on = <<>>]
    /\ UNCHANGED besides

SwitchNext ==
    \/ \E saves \in BOOLEAN : SwitchTask(saves)
    \/ ClearCommand
    \/ \E query \in Queries, catalog \in Catalogs, selected \in Selections, fails \in Failures :
           ModelCommand(query, catalog, selected, fails)

SpecSwitch == SwitchInit /\ [][SwitchNext]_vars

----------------------------------------------------------------------------
(* agent/persistence.py get_session_config_hash: the hash that tells       *)
(* whether a persisted sandbox was made for the current configuration.     *)

ServerNames == {"a", "b"}

(* An entry of core_config.mcp.servers, with the fields the hash reads.    *)
Servers ==
    [name : ServerNames, enabled : BOOLEAN, transport : {"stdio"},
     command : {"npx", "uvx"}, args : {<<"-y">>}]

(* Server lists of up to two entries; nothing keeps names apart.           *)
ServerLists ==
    {<<>>} \cup {<<x>> : x \in Servers} \cup {<<x, y>> : x \in Servers, y \in Servers}

Configs ==
    [base_url : {"https://app.daytona.io/api", "http://localhost:3000"},
     python_version : {"3.12"}, snapshot_enabled : {TRUE}, snapshot_name : {"ptc"},
     servers : ServerLists]

(* The order of the names as strings.                                      *)
NameBefore(m, n) == m = "a" /\ n = "b"

(* sorted(..., key=name): a stable sort on the name; an entry goes behind  *)
(* the entries of the same name that came before it.                       *)
RECURSIVE InsertByName(_, _)
InsertByName(sorted, x) ==
    IF sorted = <<>> THEN <<x>>
    ELSE IF NameBefore(x.name, Head(sorted).name)
         THEN <<x>> \o sorted
         ELSE <<Head(sorted)>> \o InsertByName(Tail(sorted), x)

RECURSIVE SortedByName(_)
SortedByName(servers) ==
    IF servers = <<>> THEN <<>>
    ELSE InsertByName(SortedByName(SubSeq(servers, 1, Len(servers) - 1)),
                      servers[Len(servers)])

(* persistence.py 130-139: one entry for every server of the list.         *)
mcp_servers_data(servers) == servers

(* persistence.py 141-149: json.dumps(config_data, sort_keys=True), as the *)
(* sequence of its values in key order.                                    *)
config_str(config) ==
    <<config.base_url, SortedByName(mcp_servers_data(config.servers)),
      config.python_version, config.snapshot_enabled, config.snapshot_name>>

(* hashlib.sha256(...).hexdigest()[:8], taken to tell any two texts apart. *)
sha256_8(text) == <<"sha256", text>>

get_session_config_hash(config) == sha256_8(config_str(config))

remaining == <<storeVars, sessionVars, turnVars, mainVars, tool, ctl, keys, hitl, sw, disk>>

FingerprintInit == ToolsInit

(* The hash is taken of a configuration, of another one, and of the first  *)
(* again.                                                                  *)
HashConfigs(config, other) ==
    /\ fgp = NoFingerprint
    /\ fgp' = [config |-> <<config, other>>,
               hash |-> <<get_session_config_hash(config), get_session_config_hash(other)>>,
               again |-> <<get_session_config_hash(config)>>]
    /\ UNCHANGED remaining

FingerprintNext ==
    /\ fgp = NoFingerprint
    /\ \E config \in Configs, other \in Configs : HashConfigs(config, other)

SpecFingerprint == FingerprintInit /\ [][FingerprintNext]_vars

----------------------------------------------------------------------------
(* write_file and read_file over one sandbox: what write_file hands to the *)
(* sandbox is what a later read_file gets from it.                         *)

MaxContent == 2           \* characters in a written content

(* A content is a sequence of characters; "\n" is the newline.             *)
Chars == {"x", "\n"}

FileContents == UNION {[1..n -> Chars] : n \in 0..MaxContent}

RoundTripPaths == {"a.txt", "/home/daytona/a.txt", "/etc/passwd"}

(* The pieces of a content between its newlines.                           *)
RECURSIVE Pieces0(_, _, _)
Pieces0(content, i, piece) ==
    IF i > Len(content) THEN <<piece>>
    ELSE IF content[i] = "\n" THEN <<piece>> \o Pieces0(content, i + 1, <<>>)
         ELSE Pieces0(content, i + 1, Append(piece, content[i]))

(* str.splitlines(): the lines of a content; a newline at the end of the   *)
(* content ends the last line and starts none.                             *)
splitlines(content) ==
    LET pieces == Pieces0(content, 1, <<>>)
    IN  IF pieces[Len(pieces)] = <<>> THEN SubSeq(pieces, 1, Len(pieces) - 1) ELSE pieces

(* "\n".join(lines)                                                        *)
RECURSIVE JoinLines(_)
JoinLines(lines) ==
    IF lines = <<>> THEN <<>>
    ELSE IF Len(lines) = 1 THEN lines[1]
         ELSE lines[1] \o <<"\n">> \o JoinLines(Tail(lines))

(* sandbox.read_file on the disk: the content, or None for no file; the    *)
(* tool splits the content into lines (file_ops.py 76).                    *)
SandboxRead(abs) ==
    IF abs \in SandboxPaths /\ disk[abs].exists
    THEN Give("content", splitlines(disk[abs].content))
    ELSE Give("none", <<>>)

beside == <<storeVars, sessionVars, turnVars, mainVars, ctl, keys, hitl, sw, fgp>>

RoundTripInit == ToolsInit

(* write_file; the sandbox stores the content when its write_file answers  *)
(* true.                                                                   *)
WriteToDisk(path, content, validation, out) ==
    /\ tool' = Invocation("write_file", path, validation, NoTimeout, NotHanded, out,
                          write_file(path, validation, out))
    /\ disk' = IF ~PathDenied(validation, path) /\ out.kind = "true"
                  /\ normalize_path(path) \in SandboxPaths
               THEN [disk EXCEPT ![normalize_path(path)] =
                                     [exists |-> TRUE, content |-> content]]
               ELSE disk
    /\ UNCHANGED beside

(* read_file of the whole file, answered from the disk.                    *)
ReadFromDisk(path, validation) ==
    /\ tool' = Invocation("read_file", path, validation, NoTimeout, NotHanded,
                          SandboxRead(normalize_path(path)),
                          read_file(path, -1, -1, validation, SandboxRead(normalize_path(path))))
    /\ UNCHANGED <<disk, beside>>

RoundTripNext ==
    \/ \E path \in RoundTripPaths, content \in FileContents, validation \in BOOLEAN,
          out \in WriteOutcomes : WriteToDisk(path, content, validation, out)
    \/ \E path \in RoundTripPaths, validation \in BOOLEAN : ReadFromDisk(path, validation)

SpecRoundTrip == RoundTripInit /\ [][RoundTripNext]_vars

----------------------------------------------------------------------------
(* Claims about the store, checked under SpecStore.                        *)

(* C7: whenever load_persisted_session returns None for a session file     *)
(* that exists, the file has been deleted by the time load returns.        *)
C7_FailedLoadDeletesFile ==
    (last.op = "load" /\ last.res = "none" /\ last.before.kind # "absent")
        => files[last.agent].kind = "absent"

(* C9: a load of a record that has its required fields and a last_used     *)
(* that parses returns None and removes the file when the record's age     *)
(* exceeds 24 hours, and returns the record and leaves the file as it was  *)
(* when the age is at most 24 hours.                                       *)
C9_ExpiredDeletedFreshKept ==
    (last.op = "load" /\ WellFormed(last.before)) =>
        IF Age(last.before, last.at) > SESSION_MAX_AGE_HOURS
        THEN last.res = "none" /\ files[last.agent] = NoFile
        ELSE /\ last.res = "data"
             /\ last.data = last.before.f
             /\ files[last.agent] = last.before

(* A record saved, aged past the maximum and then loaded: None, no file.   *)
C9_Witness ==
    /\ last.op = "load" /\ prev.op = "save" /\ prev.agent = last.agent
    /\ WellFormed(last.before)
    /\ Age(last.before, last.at) > SESSION_MAX_AGE_HOURS
    /\ last.res = "none"
    /\ files[last.agent] = NoFile

(* C10: save(agent, id, fp) directly followed by load(agent), before the   *)
(* record can expire, returns a record whose sandbox_id is id and whose    *)
(* config_hash is fp.                                                      *)
C10_SaveLoadRoundTrip ==
    (/\ last.op = "load" /\ prev.op = "save" /\ prev.agent = last.agent
     /\ last.at - prev.at <= SESSION_MAX_AGE_HOURS)
        => /\ last.res = "data"
           /\ last.data["sandbox_id"] = JStr(prev.id)
           /\ last.data["config_hash"] = JStr(prev.fp)

(* S2 and ffff0000 saved for alpha over an unreadable file, then loaded.   *)
C10_Witness ==
    /\ last.op = "load" /\ prev.op = "save"
    /\ prev.agent = "alpha" /\ last.agent = "alpha"
    /\ prev.before = Garbage
    /\ prev.id = "S2" /\ prev.fp = "ffff0000"
    /\ last.res = "data"
    /\ last.data["sandbox_id"] = JStr("S2")

(* C30: touch leaves a missing session file missing; of a record (a JSON   *)
(* object) it sets last_used to the current time and leaves sandbox_id,    *)
(* config_hash and created_at as they were; any other file it leaves as it *)
(* was.                                                                    *)
C30_TouchOnlyLastUsed ==
    last.op = "touch" =>
        LET before == last.before
            after == files[last.agent]
        IN  CASE before.kind = "absent" -> after = NoFile
              [] before.kind = "json" /\ before.top.t = "obj" ->
                    /\ after.kind = "json"
                    /\ after.top.t = "obj"
                    /\ \A k \in Keys \ {"last_used"} : after.f[k] = before.f[k]
                    /\ after.f["last_used"] = IsoFormatNow(last.at)
              [] OTHER -> after = before

(* A record with a sandbox id, a hash and a creation time was touched and  *)
(* its last_used moved.                                                    *)
C30_Witness ==
    /\ last.op = "touch"
    /\ WellFormed(last.before)
    /\ last.before.f["created_at"].t = "iso"
    /\ files[last.agent].f["last_used"] # last.before.f["last_used"]
    /\ files[last.agent].f["sandbox_id"] = last.before.f["sandbox_id"]

----------------------------------------------------------------------------
(* Claims about session resolution, checked under SpecSession.             *)

(* Resolution read the persisted record: persistence enabled, no explicit  *)
(* sandbox id, past the load.                                              *)
PersistedCase == pc # "start" /\ args.sandbox_id = "" /\ args.persist_session

Matching == loaded.res = "data" /\ loaded.data["config_hash"] = JStr(args.config_hash)

Drift == loaded.res = "data" /\ loaded.data["config_hash"] # JStr(args.config_hash)

PersistedAs(id, fp) ==
    /\ files[args.agent].kind = "json"
    /\ files[args.agent].f["sandbox_id"] = JStr(id)
    /\ files[args.agent].f["config_hash"] = JStr(fp)

(* C3 (S1, happy reattach): with persistence enabled, no explicit id, a    *)
(* loaded record whose config_hash is the current one and a successful     *)
(* initialize(record.sandbox_id), initialize was called exactly once, with *)
(* that id, no sandbox was created, last_used is refreshed, save was not   *)
(* called and the record keeps its sandbox_id and config_hash.             *)
C3_HappyReattach ==
    (PersistedCase /\ Matching /\ reusing_sandbox) =>
        /\ Cardinality(Calls("initialize")) = 1
        /\ \A i \in Calls("initialize") :
                log[i] = Entry("initialize", loaded.data["sandbox_id"], TRUE)
        /\ session = [up |-> TRUE, sandbox_id |-> loaded.data["sandbox_id"].s]
        /\ backend \cap NewIds = {}
        /\ Calls("save") = {}
        /\ files[args.agent].f["last_used"] = JIso("utc", now)
        /\ files[args.agent].f["sandbox_id"] = loaded.data["sandbox_id"]
        /\ files[args.agent].f["config_hash"] = loaded.data["config_hash"]
        /\ files[args.agent].f["created_at"] = loaded.data["created_at"]

(* The record {S1, abcd1234, last used an hour ago} reattached.            *)
C3_Witness ==
    /\ pc = "done" /\ PersistedCase /\ Matching /\ reusing_sandbox
    /\ loaded.data["sandbox_id"] = JStr("S1")
    /\ loaded.data["config_hash"] = JStr("abcd1234")
    /\ loaded.data["last_used"] = Recent
    /\ files[args.agent].f["last_used"] = JIso("utc", now)

(* C4 (S2, fingerprint drift): when the loaded record's config_hash is not *)
(* the current one, the record is deleted, initialize is never called with *)
(* the stale id (nor with any id), and once initialize() has created the   *)
(* new sandbox the persisted record holds its id and the current hash.     *)
C4_FingerprintDrift ==
    (PersistedCase /\ Drift) =>
        /\ Len(log) >= 2 /\ log[2] = Entry("delete", Missing, TRUE)
        /\ \A i \in Calls("initialize") : log[i].arg = Missing
        /\ pc = "create" => files[args.agent] = NoFile
        /\ pc # "create" =>
            \/ /\ pc = "raised" /\ ~session.up
               /\ log[Len(log)] = Entry("initialize", Missing, FALSE)
               /\ files[args.agent] = NoFile
            \/ /\ session.up /\ ~reusing_sandbox
               /\ session.sandbox_id \in NewIds \cap backend
               /\ PersistedAs(session.sandbox_id, args.config_hash)

(* The record of S1 under abcd1234 met by a config hashing to ffff0000,    *)
(* with S1 still alive at the backend.                                     *)
C4_Witness ==
    /\ pc = "done" /\ PersistedCase /\ Drift
    /\ loaded.data["sandbox_id"] = JStr("S1")
    /\ loaded.data["config_hash"] = JStr("abcd1234")
    /\ args.config_hash = "ffff0000"
    /\ "S1" \in backend
    /\ session.sandbox_id = "N1"
    /\ PersistedAs("N1", "ffff0000")

(* initialize(record.sandbox_id) raised for a record with the current     *)
(* hash.                                                                   *)
ReattachFailed ==
    /\ PersistedCase /\ Matching
    /\ Len(log) >= 2 /\ log[2] = Entry("initialize", loaded.data["sandbox_id"], FALSE)

(* C5 (S3, reattach fails): when initialize(record.sandbox_id) raises for  *)
(* a record with the current hash, the record is deleted, initialize() is  *)
(* called next without an id, the new sandbox's id is persisted with the   *)
(* current hash, and the function raises only if that initialize() or the  *)
(* later agent construction raises, never for the failed reattach.         *)
C5_ReattachFails ==
    ReattachFailed =>
        /\ Len(log) >= 3 /\ log[3] = Entry("delete", Missing, TRUE)
        /\ pc = "create" => Len(log) = 3 /\ files[args.agent] = NoFile
        /\ pc # "create" =>
            /\ Len(log) >= 4
            /\ log[4].call = "initialize" /\ log[4].arg = Missing
            /\ log[4].ok => /\ session.up /\ ~reusing_sandbox
                            /\ session.sandbox_id \in NewIds \cap backend
                            /\ log[5] = Entry("save", JStr(session.sandbox_id), TRUE)
                            /\ PersistedAs(session.sandbox_id, args.config_hash)
            /\ ~log[4].ok => pc = "raised" /\ ~session.up /\ files[args.agent] = NoFile

(* S1 recorded but unknown to the backend: N1 replaces it.                 *)
C5_Witness ==
    /\ pc = "done" /\ ReattachFailed
    /\ loaded.data["sandbox_id"] = JStr("S1")
    /\ "S1" \notin backend
    /\ session.sandbox_id = "N1"
    /\ PersistedAs("N1", args.config_hash)

(* C8: a malformed persisted session is never fatal: whatever the session  *)
(* file holds, load_persisted_session returns (None or the record) without *)
(* raising, and after None a resolution that completes holds a new         *)
(* sandbox.                                                                *)
C8_MalformedNeverFatal ==
    PersistedCase =>
        /\ loaded.res # "raise"
        /\ (loaded.res = "none" /\ pc \in {"agent", "done"}) => session.sandbox_id \in NewIds

----------------------------------------------------------------------------
(* Claims about a turn                                                     *)

(* C1: in every turn, the retry included, recover_sandbox is invoked at    *)
(* most once and the user input is run again at most once.                 *)
C1_AtMostOneRecovery == recoveries <= 1 /\ reruns <= 1

(* C2: once the turn has retried, a further sandbox fault, as a tool       *)
(* result or as an exception of the stream, aborts the turn: the turn is   *)
(* over and did not complete.                                              *)
C2_FaultAfterRetryAborts == late_fault => tpc = "done" /\ result # "completed"

----------------------------------------------------------------------------
(* Claims about main: start-up and teardown                                *)

ExplicitReattached ==
    /\ args.sandbox_id # ""
    /\ main_session
    /\ reusing_sandbox
    /\ session.sandbox_id = args.sandbox_id

(* C12: when the sandbox id given with --sandbox-id is reattached, no      *)
(* sandbox is created and cleanup is never called on it at exit, whatever  *)
(* the other flags and however the run ended.                              *)
C12_ExplicitSandboxNeverCleaned ==
    ExplicitReattached =>
        /\ \A i \in Calls("initialize") : log[i].arg = JStr(args.sandbox_id)
        /\ \A i \in 1..Len(teardown) : teardown[i].call # "cleanup"
        /\ args.sandbox_id \notin destroyed

(* initialize(sandbox_id) raised for the id given by the caller.           *)
ExplicitFailed ==
    /\ args.sandbox_id # ""
    /\ Len(log) >= 1
    /\ log[1] = Entry("initialize", JStr(args.sandbox_id), FALSE)

(* C13: when the caller gives a sandbox id and initialize(sandbox_id)      *)
(* raises, initialize() without an id is called next, and the id of the    *)
(* sandbox it creates is persisted if and only if persistence is enabled.  *)
C13_ExplicitFailsFallsThrough ==
    (ExplicitFailed /\ pc # "create") =>
        /\ Len(log) >= 3
        /\ log[3].call = "initialize" /\ log[3].arg = Missing
        /\ log[3].ok =>
            /\ session.sandbox_id \in NewIds
            /\ ~reusing_sandbox
            /\ args.persist_session =>
                    /\ Calls("save") = {4}
                    /\ log[4] = Entry("save", JStr(session.sandbox_id), TRUE)
                    /\ PersistedAs(session.sandbox_id, args.config_hash)
            /\ ~args.persist_session =>
                    /\ Calls("save") = {}
                    /\ ~PersistedAs(session.sandbox_id, args.config_hash)

(* The given id is unknown to the backend, persistence is enabled: N1 is   *)
(* created and recorded.                                                   *)
C13_Witness ==
    /\ ExplicitFailed /\ pc = "done"
    /\ args.persist_session
    /\ session.sandbox_id \in NewIds
    /\ PersistedAs(session.sandbox_id, args.config_hash)

(* The record of the agent names this sandbox id.                          *)
RecordNames(id) ==
    /\ files[args.agent].kind = "json"
    /\ files[args.agent].top = JObj
    /\ files[args.agent].f["sandbox_id"] = JStr(id)

(* C34: when create_agent_with_session has returned with persistence       *)
(* enabled, the agent's record exists and its sandbox_id is the id of the  *)
(* sandbox the session holds.                                              *)
C34_RecordNamesSessionSandbox ==
    (pc = "done" /\ args.persist_session) => RecordNames(session.sandbox_id)

(* C35: with persistence disabled no step of the resolution changes the    *)
(* agent's session file.                                                   *)
C35_DisabledLeavesFileAlone ==
    [][(~args.persist_session /\ pc # "done") => files'[args.agent] = files[args.agent]]_vars

(* C36: when main has exited, the agent's record does not name a sandbox   *)
(* that the teardown destroyed.                                            *)
C36_NoDanglingRecord ==
    mpc = "exited" => \A id \in destroyed : ~RecordNames(id)

(* C37: when main has exited and the resolution had brought a sandbox up,  *)
(* stop or cleanup was called on the session.                              *)
C37_NoLeakedSandbox ==
    (mpc = "exited" /\ session.up) =>
        \E i \in 1..Len(teardown) :
            /\ teardown[i].call \in {"stop", "cleanup"}
            /\ teardown[i].arg = JStr(session.sandbox_id)

----------------------------------------------------------------------------
(* Claims about the tools                                                  *)

FilesystemTools == {"read_file", "write_file", "edit_file", "glob", "grep"}

StartsWith(ret, parts) ==
    /\ ret.raised = ""
    /\ Len(ret.parts) >= Len(parts)
    /\ SubSeq(ret.parts, 1, Len(parts)) = parts

(* The path the tool checked: glob and grep search "." when given none.    *)
CheckedPath == IF tool.path = "" THEN DefaultSearchPath ELSE tool.path

Outside == tool.validation /\ ~validate_path(normalize_path(CheckedPath))

(* C14: with path validation enabled, for a path outside the allowed       *)
(* directories every filesystem tool returns a string starting with        *)
(* "ERROR: Access denied" and makes no backend call.                       *)
C14_OutsidePathDenied ==
    (tool.name \in FilesystemTools /\ Outside) =>
        /\ StartsWith(tool.ret, <<"ERROR: ", "Access denied: ">>)
        /\ tool.calls = <<>>

(* grep on /etc/passwd is refused.                                         *)
C14_Witness ==
    /\ tool.name = "grep" /\ tool.path = "/etc/passwd" /\ tool.validation
    /\ tool.ret = Denied("/etc/passwd")
    /\ tool.calls = <<>>

Contains(ret, msg) == \E i \in 1..Len(ret.parts) : ret.parts[i] = msg

(* The backend was called and raised.                                      *)
BackendRaised == tool.calls # <<>> /\ tool.out.kind = "raise"

(* C15: every tool returns a string and lets no exception out; when the    *)
(* backend call raised, the string starts with "ERROR: " and holds the     *)
(* exception message.                                                      *)
C15_ErrorsAreData ==
    tool.name # "" =>
        /\ tool.ret.raised = ""
        /\ BackendRaised =>
                /\ StartsWith(tool.ret, <<"ERROR: ">>)
                /\ Contains(tool.ret, tool.out.msg)

(* execute_bash_command raises "timed out" and Bash returns it as text.    *)
C15_Witness ==
    /\ tool.name = "Bash" /\ BackendRaised
    /\ tool.ret = Returns(<<"ERROR: ", "Failed to execute bash command: ", "timed out">>)

(* C16: the timeout the Bash tool hands to the sandbox is at most 600      *)
(* seconds whatever timeout it was given, and 120 seconds when it was      *)
(* given none (the default of 120 000 ms).                                 *)
C16_TimeoutClamped ==
    (tool.name = "Bash" /\ tool.calls # <<>>) =>
        /\ tool.handed.whole * 1000 + tool.handed.milli <= MAX_TIMEOUT_MS
        /\ tool.timeout.kind = "default" => tool.handed = Seconds(FALLBACK_TIMEOUT_SECONDS, 0)

----------------------------------------------------------------------------
(* Claims about the controller                                             *)

----------------------------------------------------------------------------
(* Claims about the resolution of HITL interrupts, checked under SpecHitl  *)
(* (C31 under SpecPlan).                                                   *)

Resumed == hitl.phase = "resumed"

(* What the user was asked about the pending interrupt with this id.       *)
AnswersFor(id) ==
    (CHOOSE a \in {hitl.asked[i] : i \in 1..Len(hitl.asked)} : a.key = id).answers

Expected(answer) == IF answer.choice = "accept" THEN Approve ELSE Reject

AllDecisions ==
    LET resp == hitl.stream_input.resume
    IN  UNION {{resp[k].value.decisions[j] : j \in 1..Len(resp[k].value.decisions)} :
                   k \in 1..Len(resp)}

(* C19: when the stream is resumed after HITL interrupts, the response map *)
(* of the resume command has exactly one entry for every pending interrupt *)
(* id and no other entry; the entry's decisions list has one decision for  *)
(* every action request of the interrupt, in the order of the requests     *)
(* (an approval under auto-approve, otherwise what the user answered to    *)
(* that request); and when every decision is an approval the injected      *)
(* message is the one that tells the agent to proceed.                     *)
C19_ResponsePerInterrupt ==
    Resumed =>
        LET pend == hitl.pending_interrupts
            resp == hitl.stream_input.resume
        IN  /\ \A i \in 1..Len(pend) :
                   Cardinality({k \in 1..Len(resp) : resp[k].key = pend[i].key}) = 1
            /\ \A k \in 1..Len(resp) : \E i \in 1..Len(pend) : resp[k].key = pend[i].key
            /\ \A i \in 1..Len(pend) : \A k \in 1..Len(resp) :
                   resp[k].key = pend[i].key =>
                       LET ds == resp[k].value.decisions
                       IN  /\ Len(ds) = Len(pend[i].value)
                           /\ \A j \in 1..Len(ds) :
                                  ds[j] = IF hitl.auto_approve THEN Approve
                                          ELSE Expected(AnswersFor(pend[i].key)[j])
            /\ (AllDecisions \subseteq {Approve}) => hitl.stream_input.update = ApprovedMsg

(* Two interrupts were pending, with two and with one action request; the  *)
(* user accepted all three and the stream is resumed.                      *)
C19_Witness ==
    /\ Resumed
    /\ ~hitl.auto_approve
    /\ Len(hitl.pending_interrupts) = 2
    /\ Len(hitl.pending_interrupts[1].value) = 2
    /\ Len(hitl.pending_interrupts[2].value) = 1
    /\ hitl.stream_input.resume[1].value.decisions = <<Approve, Approve>>
    /\ hitl.stream_input.resume[2].value.decisions = <<Approve>>
    /\ hitl.stream_input.update = ApprovedMsg

(* A text appears in a message when it is empty or one of the pieces.      *)
Appears(f, msg) == f = "" \/ \E i \in 1..Len(msg) : msg[i] = f

(* The feedback texts typed with the rejections of this resolution.        *)
TypedFeedback ==
    {hitl.asked[i].answers[j].text :
         <<i, j>> \in {p \in (1..Len(hitl.asked)) \X (1..MaxRequests + 1) :
                          /\ p[2] <= Len(hitl.asked[p[1]].answers)
                          /\ hitl.asked[p[1]].answers[p[2]].choice = "reject"}}

(* C20: when the stream is resumed, every feedback text the user typed     *)
(* with the rejection of an action request of this resolution appears      *)
(* unchanged in the injected message.                                      *)
C20_FeedbackVerbatim ==
    Resumed => \A f \in TypedFeedback : Appears(f, hitl.stream_input.update)

(* The answers given in this resolution, as pairs <<interrupt, request>>.  *)
Asked ==
    {p \in (1..Len(hitl.asked)) \X (1..MaxRequests + 1) :
         p[2] <= Len(hitl.asked[p[1]].answers)}

AnswerAt(p) == hitl.asked[p[1]].answers[p[2]]

(* C21: with auto-approve set, when the stream is resumed every action     *)
(* request of every pending interrupt has the decision {type: approve}, no *)
(* approval prompt was shown, and the injected message is the approval     *)
(* message.                                                                *)
C21_AutoApprove ==
    (hitl.auto_approve /\ hitl.phase \in {"resolving", "resumed"}) =>
        /\ Asked = {}
        /\ \A k \in 1..Len(hitl.hitl_response) :
               \A j \in 1..Len(hitl.hitl_response[k].value.decisions) :
                   hitl.hitl_response[k].value.decisions[j] = Approve
        /\ Resumed =>
               /\ Len(hitl.stream_input.resume) = Len(hitl.pending_interrupts)
               /\ \A i \in 1..Len(hitl.pending_interrupts) :
                      /\ hitl.stream_input.resume[i].key = hitl.pending_interrupts[i].key
                      /\ Len(hitl.stream_input.resume[i].value.decisions)
                             = Len(hitl.pending_interrupts[i].value)
               /\ hitl.stream_input.update = ApprovedMsg

(* Auto-approve resumed the stream for two interrupts with two action      *)
(* requests each.                                                          *)
C21_Witness ==
    /\ Resumed
    /\ hitl.auto_approve
    /\ Len(hitl.pending_interrupts) = 2
    /\ \A i \in 1..2 : hitl.stream_input.resume[i].value.decisions = <<Approve, Approve>>

Cancelled == {p \in Asked : AnswerAt(p).choice = "cancel"}

ReminderAt(messages) ==
    {i \in 1..Len(messages) : messages[i] = UserMessage(PlanReminder)}

(* C31: the first stream input of a call of execute_task (the first call   *)
(* or its retry) ends with the user's message, and holds the plan-mode     *)
(* reminder, once, as the user message right before it, exactly when plan  *)
(* mode is on; a stream opened by a resume has no messages of that input,  *)
(* and the Command of a resume carries the decision message only, which is *)
(* not the reminder.                                                       *)
C31_PlanReminderOnFirstInput ==
    /\ hitl.opened_with = "dict" =>
           LET messages == hitl.messages
               n == Len(messages)
           IN  /\ n >= 1
               /\ messages[n] = UserMessage(UserInput)
               /\ ReminderAt(messages) = IF hitl.plan_mode THEN {n - 1} ELSE {}
               /\ n = IF hitl.plan_mode THEN 2 ELSE 1
    /\ hitl.opened_with = "command" => hitl.messages = <<>>
    /\ Resumed =>
           /\ hitl.stream_input.update \in
                  {ApprovedMsg} \cup {RejectedMsg(f) : f \in FeedbackTexts
                                          \cup {"No feedback provided", "User cancelled"}}
           /\ \A i \in 1..Len(hitl.stream_input.update) :
                  hitl.stream_input.update[i] # PlanReminder

(* Plan mode was switched on, the task was retried after a recovery, its   *)
(* stream ended with an interrupt and the resume is built.                 *)
C31_Witness ==
    /\ Resumed
    /\ hitl.plan_mode
    /\ hitl.retried
    /\ hitl.opened_with = "dict"
    /\ hitl.messages = <<UserMessage(PlanReminder), UserMessage(UserInput)>>

(* C39: every interrupt a stream carried is answered: the interrupt loop   *)
(* is not left after a stream that carried one, and a resume has an entry  *)
(* for the id of every interrupt the stream carried.                       *)
C39_EveryInterruptAnswered ==
    /\ hitl.phase = "done" => hitl.delivered = {}
    /\ Resumed => hitl.delivered \subseteq DictKeys(hitl.stream_input.resume)

----------------------------------------------------------------------------
(* Further claims about a turn, checked under SpecTurn.                    *)

(* C23: a Bash result with a status other than success whose content       *)
(* begins with "error" and matches the sandbox-fault set, received by a    *)
(* call that has not retried and has a session, starts recovery.           *)
C23_FailedShellResultClassified ==
    [][\A status \in Statuses \ {"success"} : \A content \in Contents : \A healthy \in BOOLEAN :
           (/\ StreamToolResult("Bash", status, content, healthy)
            /\ StartsWithError(content)
            /\ is_sandbox_error(content)
            /\ MayRecover)
               => tpc' = "recover"]_vars

(* C25: a turn that a user interrupt ended was ended by execute_task       *)
(* returning normally, with the spinner stopped.                           *)
C25_InterruptCaught ==
    (tpc = "done" /\ result \in {"interrupted", "raised_interrupt"})
        => (result = "interrupted" /\ ~state.spinner_active)

C33_RefreshOnlyAfterSuccess ==
    /\ seen.refresh_tasks <= 1
    /\ seen.refresh_tasks = 1 => (tpc = "done" /\ result = "completed" /\ seen.completer)
    /\ (tpc = "done" /\ result # "completed") => (seen.refresh_tasks = 0 /\ seen.refresh = "")
    /\ seen.refresh # "" => (seen.refresh_tasks = 1 /\ tpc = "done" /\ result = "completed")

(* The task was run again after a recovery and completed; the one refresh  *)
(* task it created failed, and nothing came of the failure.                *)
C33_Witness ==
    /\ reruns = 1
    /\ tpc = "done" /\ result = "completed"
    /\ seen.refresh_tasks = 1
    /\ seen.refresh = "swallowed"

(* C38: when execute_task has finished, by returning or by raising, the    *)
(* spinner of its StreamingState is not active.                            *)
C38_SpinnerStoppedAtExit == tpc = "done" => ~state.spinner_active

----------------------------------------------------------------------------
(* Further claims about the interactive loop, checked under SpecController.*)

(* C24: after a line was handed to execute_task, whether execute_task      *)
(* returned or raised, the loop is at its prompt again.                    *)
C24_LoopContinuesAfterRaise ==
    (ctl.route = "task" /\ ctl.execute_task # <<>>) => ctl.loop = "prompt"

----------------------------------------------------------------------------
(* Claims about /model, checked under SpecSwitch.                          *)

C27_SwitchAtomic ==
    sw.cmd.returned # "" =>
        \/ Triple(sw) = sw.cmd.before
        \/ /\ sw.cmd.selected # ""
           /\ Triple(sw) = <<sw.cmd.selected, sw.cmd.selected, sw.cmd.selected>>

----------------------------------------------------------------------------
(* Claims about the configuration hash, checked under SpecFingerprint.     *)

(* What the hash is said to depend on: the four sandbox settings and the   *)
(* descriptors of the enabled servers, whatever their order.               *)
Relevant(config) ==
    [base_url |-> config.base_url, python_version |-> config.python_version,
     snapshot_enabled |-> config.snapshot_enabled, snapshot_name |-> config.snapshot_name,
     enabled |-> {config.servers[i] : i \in {j \in 1..Len(config.servers) :
                                                 config.servers[j].enabled}}]

(* C28: two configurations with the same sandbox settings and the same     *)
(* enabled servers have the same hash, and a configuration hashed again    *)
(* has the same hash.                                                      *)
C28_HashDependsOnEnabledOnly ==
    fgp # NoFingerprint =>
        /\ fgp.again[1] = fgp.hash[1]
        /\ Relevant(fgp.config[1]) = Relevant(fgp.config[2]) => fgp.hash[1] = fgp.hash[2]

----------------------------------------------------------------------------
(* Claims about the round trip through the tools, checked under            *)
(* SpecRoundTrip.                                                          *)

(* read_file returned the numbered lines of a file.                        *)
ReadBack ==
    /\ tool.name = "read_file"
    /\ tool.out.kind = "content"
    /\ tool.ret.parts = <<>>
    /\ tool.ret.raised = ""

(* The returned lines without their numbers.                               *)
Unnumbered == [i \in 1..Len(tool.ret.lines) |-> tool.ret.lines[i].line]

(* C29: when read_file returns the lines of a file that write_file wrote,  *)
(* the lines without their number and arrow, joined with newlines, are the *)
(* content that was written.                                               *)
C29_WriteReadRoundTrip ==
    ReadBack => JoinLines(Unnumbered) = disk[normalize_path(tool.path)].content

====
